---- MODULE Spec2Model ----
(***************************************************************************)
(* State-machine model of the pyespargos CSI ingestion pipeline:           *)
(*   - espargos/board.py   : the per-board stream reader (producer)         *)
(*   - espargos/pool.py    : ClusteredCSI, _CSICallback and Pool            *)
(*   - espargos/backlog.py : the CSIBacklog ring buffer                     *)
(*                                                                         *)
(* Time is counted in clock ticks.  A cluster stores its age (time.time()  *)
(* minus its creation timestamp); ages saturate one tick above the cache   *)
(* timeout, which is exact because the code only compares an age against   *)
(* thresholds that are not larger than the timeout.                        *)
(***************************************************************************)
EXTENDS Integers, Sequences, FiniteSets, TLC

\* ---------------------------------------------------------------- constants.py
ANTENNAS_PER_ROW == 4
ROWS_PER_BOARD == 2
ANTENNAS_PER_BOARD == ANTENNAS_PER_ROW * ROWS_PER_BOARD

\* csi.py
HT40_GAP_SUBCARRIERS == 3
\* csi._ESPARGOS_SPI_TYPE_HEADER_CSI = 0x5a1f19b1
ESPARGOS_SPI_TYPE_HEADER_CSI == 1511987633
\* Board._csistream_timeout = 5 and timeout_once = 0.2, in milliseconds
csistream_timeout == 5000
timeout_once == 200

\* ---------------------------------------------------------------- bounds
\* fragments of frame 2 streamed before the first fragment of frame 1
MaxLead == 1
\* phase-reference fragments streamed before the first fragment of frame 1
MaxCalib == 1
\* fragments each board of a two-board pool streams
MaxMulti == 3
\* longest input_list a reader still appends to
MaxQueue == 2
\* number of add_csi_callback calls
MaxCallbacks == 2
\* Pool(ota_cache_timeout = ...), in clock ticks
ota_cache_timeout == 2
\* threshold of the user predicate  lambda completion, age: age > PredAge
PredAge == 1
\* largest CSIBacklog(size = ...)
MaxSize == 3
\* number of clusters delivered to the backlog
MaxInserts == 5
\* number of add_update_callback calls
MaxUpdateCallbacks == 2
\* number of clusters delivered to the backlog while the main thread reads it
MaxRaced == 2
\* number of add_csi calls made on one cluster
MaxAdds == 9
\* number of different payloads a sensor may report for one frame
MaxPayload == 2
\* number of consumers registered with one board
MaxConsumers == 2

\* the largest difference between neighbouring samples of a buffer
MaxStride == 2
\* the largest esp_num a stream packet carries
MaxEspNum == 16

VARIABLES
    \* ---- Pool
    boardcount,          \* len(self.boards)
    callbacks,           \* self.callbacks: sequence of _CSICallback
    input_list,          \* self.input_list, guarded by self.input_cond
    cluster_cache_ota,   \* self.cluster_cache_ota, in insertion order
    cluster_cache_calib, \* self.cluster_cache_calib, in insertion order
    stats,               \* self.stats["packet_backlog"]
    stored_calibration,  \* self.stored_calibration (<<>> is None)
    raised,              \* what the last calibrate() call raised ("none": it returned)
    calibrating,         \* a calibrate() call is between its clear and its evaluation
    calib_mode,          \* per board: calibration mode as set by Board.set_calib
    \* ---- the thread executing Pool.run()
    pc,                  \* "wait": outside run(); "handle": inside _handle_packets
    packets,             \* the local list run() drained the queue into
    \* ---- environment: the records each controller streams
    stream,              \* per board: the records its controller has yet to send
    sent,                \* per board: number of records appended to the queue
    \* ---- observations of the calls the pool makes
    last_pkt,            \* the packet _handle_packets has passed to add_csi last
    last_calls,          \* the callback invocations of the last processed packet
    last_evicted,        \* the clusters deleted while processing the last packet
    ncompleted,          \* number of over-the-air clusters that became complete
    received,            \* per callback: highest completion rank delivered to it
    add_count,           \* per board: number of add_csi calls made for it
    last_seq,            \* per board: stream position of the last fragment added
    gone,                \* the (callback, cluster key) pairs of the clusters deleted
                         \* after that callback had been invoked with them
    \* ---- CSIBacklog
    size,                \* self.size
    enable_lltf,         \* self.enable_lltf
    enable_ht40,         \* self.enable_ht40
    calibrate,           \* self.calibrate
    storage_ht40,        \* self.storage_ht40: one row per ring slot
    storage_lltf,        \* self.storage_lltf
    storage_timestamps,  \* self.storage_timestamps
    storage_rssi,        \* self.storage_rssi
    storage_macs,        \* self.storage_macs
    head,                \* self.head
    latest,              \* self.latest
    filllevel,           \* self.filllevel
    mac_filter,          \* self.mac_filter (<<>> is None)
    update_callbacks,    \* len(self.callbacks)
    \* ---- observations of the backlog
    delivered,           \* number of clusters the pool has handed to new_csi_callback
    stored,              \* the clusters new_csi_callback has stored, in order
    notified,            \* number of update callback invocations
    update_calls,        \* the update callback invocations of the last call of
                         \* new_csi_callback: which callback, and what the
                         \* accessors return to it
    \* ---- the backlog thread inside new_csi_callback, statement by statement
    w_pc,                \* the statement it executes next ("idle": not inside)
    w_cluster,           \* << clustered_csi >> while inside
    \* ---- the main thread inside a read accessor
    r_pc,                \* "idle", "head", "roll", "slice" or "done"
    r_which,             \* the accessor called
    r_head,              \* the value of self.head it has loaded
    r_rolled,            \* the array np.roll has returned to it
    r_result,            \* << the rows the accessor returned >>
    \* ---- observation of the accessors
    w_before,            \* what each accessor returned when the insert began
    overlap,             \* the read has been going on during the insert in progress
    views,               \* what the accessor called returns between whole inserts
    \* ---- one ClusteredCSI object on its own
    cluster,             \* the object
    adds,                \* number of add_csi calls made on it
    \* ---- one Board object, its reader thread and the thread that stops it
    csistream_connected, \* self.csistream_connected
    consumers,           \* self.consumers: the args of each (clist, cv, args)
    clists,              \* the list of each consumer
    cv_owner,            \* who holds the condition variable of each consumer
    t_pc,                \* position of the reader thread in _csistream_loop
    timeout_total,       \* its local timeout_total
    message,             \* << the message it handles >>
    m_i,                 \* the packet of the message it is at
    m_j,                 \* the consumer it is at
    s_pc,                \* position of the caller of stop()
    \* ---- observations of the reader
    got,                 \* per consumer: the items appended for the last message
    notifications,       \* per consumer: cv.notify() calls made for the last message
    last_message,        \* << the last message received >>
    \* ---- a function looked at on its own
    arg,                 \* << its arguments >>
    result,              \* << what it returned >>
    \* ---- the threads that call Pool.run()
    running,             \* CSIBacklog.running
    th_pc,               \* per thread: its position
    th_packets,          \* per thread: the local packets of Pool.run
    started,             \* has CSIBacklog.start() been called?
    stop_returned,       \* has a call of CSIBacklog.stop() returned?
    \* ---- observations of the threads
    further_runs,        \* Pool.run() calls the producer began after stop() cleared the flag
    storer,              \* the thread of the last ring insert
    \* ---- Pool.calibrate, statement by statement
    steps                \* the statements the current or the last call has completed

pool_vars == << boardcount, callbacks, input_list, cluster_cache_ota, cluster_cache_calib,
                stats, calibrating, calib_mode, pc, packets,
                stream, sent, last_pkt, last_calls, last_evicted, ncompleted,
                received, add_count, last_seq, gone >>

backlog_vars == << size, enable_lltf, enable_ht40, calibrate, storage_ht40, storage_lltf,
                   storage_timestamps, storage_rssi, storage_macs, head, latest,
                   filllevel, mac_filter, update_callbacks, delivered, stored, notified, update_calls >>

access_vars == << w_pc, w_cluster, r_pc, r_which, r_head, r_rolled, r_result,
                  w_before, overlap, views >>

cluster_vars == << cluster, adds >>

board_vars == << csistream_connected, consumers, clists, cv_owner, t_pc, timeout_total,
                 message, m_i, m_j, s_pc, got, notifications, last_message >>

\* the variables of the functions that are looked at on their own
call_vars == << arg, result >>

\* the producer thread of the backlog and the thread of the application
Threads == { "producer", "application" }

life_vars == << running, th_pc, th_packets, started, stop_returned, further_runs, storer >>

further == << call_vars, life_vars, steps >>

\* a backlog that is constructed and not started, beside an application that
\* is not inside a call
NoThreads ==
    /\ running = TRUE
    /\ th_pc = [t \in Threads |-> IF t = "producer" THEN "none" ELSE "idle"]
    /\ th_packets = [t \in Threads |-> << >>]
    /\ started = FALSE
    /\ stop_returned = FALSE
    /\ further_runs = 0
    /\ storer = "none"
    /\ steps = << >>

\* no function is looked at on its own
NoCall == arg = << >> /\ result = << >>

\* what an operation of the pool, and what an operation of the backlog, leaves alone
beside_pool == << backlog_vars, access_vars, cluster_vars, board_vars, further >>

beside_backlog == << pool_vars, stored_calibration, raised, access_vars, cluster_vars, board_vars, further >>

beside_board == << pool_vars, stored_calibration, raised, backlog_vars, access_vars, cluster_vars, further >>

\* the ring of the backlog, the caches of the pool with what is observed of
\* them, and what the threads that call Pool.run() leave alone
ring_vars == << storage_ht40, storage_lltf, storage_timestamps, storage_rssi, storage_macs,
               head, latest, filllevel, stored, notified, update_calls >>

cache_vars == << cluster_cache_ota, cluster_cache_calib, last_pkt, last_calls, last_evicted,
                ncompleted, received, add_count, last_seq, gone >>

beside_run == << boardcount, callbacks, stored_calibration, calib_mode,
                pc, packets, stream, sent, size, enable_lltf, enable_ht40, calibrate,
                mac_filter, update_callbacks, access_vars, cluster_vars, board_vars,
                call_vars, steps >>

beside_threads == << beside_run, raised, calibrating >>

beside_call == << pool_vars, stored_calibration, raised, backlog_vars, access_vars, cluster_vars,
                 board_vars, life_vars, steps >>

vars == << pool_vars, stored_calibration, raised, backlog_vars, access_vars, cluster_vars,
          board_vars, further >>

\* ---------------------------------------------------------------- helpers
Min(a, b) == IF a < b THEN a ELSE b

Max(a, b) == IF a < b THEN b ELSE a

SelectIdx(s, Test(_)) == { i \in DOMAIN s : Test(s[i]) }

Boards == 0 .. boardcount - 1

\* every (board, row, column) slot of a cluster: ClusteredCSI.shape
Slots(n) == (0 .. n - 1) \X (0 .. ROWS_PER_BOARD - 1) \X (0 .. ANTENNAS_PER_ROW - 1)

\* ---------------------------------------------------------------- environment
\* The sensor that reports the n-th fragment (n = 0, 1, ...) of a WiFi frame: the
\* sensors of frame 2 report in the opposite order of those of frame 1.
SensorOrder(key, n) == IF key = 2 THEN ANTENNAS_PER_BOARD - 1 - n ELSE n

\* A stream record.  key stands for the cluster key
\* (source_mac, dest_mac, seq_ctrl.seg, seq_ctrl.frag) of the WiFi frame; channel,
\* cwb and secondary_channel are the fields of rx_ctrl: an HT40 frame on
\* channel 1 with the secondary channel above.
Fragment(key, is_calib, n) ==
    [esp_num |-> SensorOrder(key, n), key |-> key, is_calib |-> is_calib,
     channel |-> 1, cwb |-> 1, secondary_channel |-> 1]

\* the fragments number from .. to-1 of a frame, in reporting order
Burst(key, is_calib, from, to) ==
    [i \in 1 .. (to - from) |-> Fragment(key, is_calib, from + i - 1)]

\* the same fragments received on another channel, as HT40 (cwb = 1, secondary
\* channel above) or as HT20 (cwb = 0, no secondary channel)
Tuned(burst, channel, cwb) ==
    [i \in DOMAIN burst |->
        [burst[i] EXCEPT !.channel = channel, !.cwb = cwb, !.secondary_channel = cwb]]

\* One board: k fragments of frame 2, c phase-reference fragments (same key as
\* frame 1), all of frame 1, then the rest of frame 2.
Overtaking(k, c) ==
    Burst(2, FALSE, 0, k) \o Burst(1, TRUE, 0, c)
        \o Burst(1, FALSE, 0, ANTENNAS_PER_BOARD) \o Burst(2, FALSE, k, ANTENNAS_PER_BOARD)

\* One board: a whole phase-reference frame, then the start of frame 1.
Reference == Burst(1, TRUE, 0, ANTENNAS_PER_BOARD) \o Burst(1, FALSE, 0, MaxLead)

\* Two boards, each streaming MaxMulti records.
TwoBoards ==
    [ b \in 0 .. 1 |->
        IF b = 0 THEN Burst(1, FALSE, 0, MaxMulti)
        ELSE Burst(2, FALSE, 0, 1) \o Burst(1, TRUE, 0, 1) \o Burst(1, FALSE, 0, MaxMulti - 2) ]

\* what the controllers stream in one run of the system, one stream per board:
\* over-the-air traffic of one board
Traffic == { [b \in 0 .. 0 |-> Overtaking(k, 0)] : k \in 0 .. MaxLead }

\* One board: phase-reference fragments before and after the start of frame 1,
\* which has the same key.
Mixed ==
    Burst(1, TRUE, 0, MaxCalib) \o Burst(1, FALSE, 0, MaxMulti)
        \o Burst(1, TRUE, MaxCalib, MaxCalib + 1)

\* traffic of one board that contains phase-reference fragments
CalibTraffic == { [b \in 0 .. 0 |-> Reference], [b \in 0 .. 0 |-> Mixed] }

\* ---------------------------------------------------------------- ClusteredCSI
\* ClusteredCSI.__init__.  called[i] counts (up to 2) the invocations of callback
\* i with this object; rank is the position of the cluster in the order of
\* completion (0: not complete).
ClusteredCSI(id, n) ==
    [ id |-> id,
      boardcount |-> n,
      serialized_csi_all |-> << >>,
      csi_completion_state |-> {},
      csi_completion_state_all |-> FALSE,
      age |-> 0,
      called |-> [i \in 1 .. MaxCallbacks |-> 0],
      rank |-> 0 ]

\* row and column of a sensor (add_csi)
Row(esp_num) == 1 - (esp_num \div 4)
Column(esp_num) == 3 - (esp_num % 4)

\* the part of a queue item that is the serialized_csi_t record
Serialized(pkt) ==
    [key |-> pkt.key, is_calib |-> pkt.is_calib, channel |-> pkt.channel, cwb |-> pkt.cwb,
     secondary_channel |-> pkt.secondary_channel]

\* cluster_id of a record (Pool._handle_packets)
ClusterId(serialized_csi) == serialized_csi.key

\* a[i] on a Python list or a numpy axis of length n: the position the index
\* denotes (a negative index counts from the end), or n when the index is out
\* of range and the subscription raises IndexError
PyIndex(i, n) == IF i >= 0 - n /\ i < n THEN i % n ELSE n

\* the slot that [board_num][row][column] denotes in add_csi
SlotOf(board_num, esp_num) ==
    << board_num, PyIndex(Row(esp_num), ROWS_PER_BOARD),
       PyIndex(Column(esp_num), ANTENNAS_PER_ROW) >>

\* the first subscripted assignment of add_csi raises IndexError
IndexError(esp_num) ==
    \/ PyIndex(Row(esp_num), ROWS_PER_BOARD) = ROWS_PER_BOARD
    \/ PyIndex(Column(esp_num), ANTENNAS_PER_ROW) = ANTENNAS_PER_ROW

\* add_csi as it would be if csi_completion_state_all were computed before the
\* bit of the slot is set
add_csi_stale(c, board_num, esp_num, serialized_csi) ==
    LET slot == SlotOf(board_num, esp_num)
        state == c.csi_completion_state \cup {slot}
    IN  IF IndexError(esp_num) THEN c
        ELSE [ c EXCEPT
                 !.serialized_csi_all =
                     [ s \in (DOMAIN c.serialized_csi_all) \cup {slot} |->
                         IF s = slot THEN serialized_csi ELSE c.serialized_csi_all[s] ],
                 !.csi_completion_state = state,
                 !.csi_completion_state_all = (c.csi_completion_state = Slots(c.boardcount)) ]

\* ClusteredCSI.add_csi: the record is stored at [board_num][row][column] with
\* row = 1 - esp_num // 4 and column = 3 - esp_num % 4, whatever esp_num is;
\* nothing is changed when that subscription raises IndexError
add_csi(c, board_num, esp_num, serialized_csi) ==
    LET slot == SlotOf(board_num, esp_num)
        state == c.csi_completion_state \cup {slot}
    IN  IF IndexError(esp_num) THEN c
        ELSE [ c EXCEPT
                 !.serialized_csi_all =
                     [ s \in (DOMAIN c.serialized_csi_all) \cup {slot} |->
                         IF s = slot THEN serialized_csi ELSE c.serialized_csi_all[s] ],
                 !.csi_completion_state = state,
                 !.csi_completion_state_all = (state = Slots(c.boardcount)) ]

\* ---------------------------------------------------------------- _CSICallback
\* the predicates users register: "none" is cb_predicate = None
Predicates == { "none", "age" }

\* _CSICallback.__init__
CSICallback(cb_predicate) == [cb_predicate |-> cb_predicate, fired |-> FALSE]

\* the user predicate, applied to (completion mask, age)
cb_predicate(p, completion, age) == age > PredAge

\* _CSICallback.try_call: ret is the returned value, invoked says whether
\* self.cb(csi_cluster) was called.  self.fired is read and never assigned.
\* try_call as it would be if a callback without predicate accepted a cluster
\* as soon as any sensor has reported
try_call_partial(cb, c) ==
    IF cb.fired
    THEN [ret |-> TRUE, invoked |-> FALSE]
    ELSE LET callback_required ==
                IF cb.cb_predicate # "none"
                THEN cb_predicate(cb.cb_predicate, c.csi_completion_state, c.age)
                ELSE c.csi_completion_state # {}
         IN  [ret |-> callback_required, invoked |-> callback_required]

\* _CSICallback.try_call: self.fired is read, and nothing assigns it
try_call(cb, c) ==
    IF cb.fired
    THEN [ret |-> TRUE, invoked |-> FALSE]
    ELSE LET callback_required ==
                IF cb.cb_predicate # "none"
                THEN cb_predicate(cb.cb_predicate, c.csi_completion_state, c.age)
                ELSE c.csi_completion_state_all
         IN  [ret |-> callback_required, invoked |-> callback_required]

\* what is recorded of one invocation self.cb(csi_cluster); rcv[i] is the highest
\* completion rank delivered to callback i before this invocation
CallRecord(i, c, rcv) ==
    [ cb |-> i,
      id |-> c.id,
      completion |-> c.csi_completion_state,
      complete |-> c.csi_completion_state_all,
      age |-> c.age,
      calib |-> \E s \in DOMAIN c.serialized_csi_all : c.serialized_csi_all[s].is_calib,
      nth |-> c.called[i] + 1,
      prior |-> { j \in 1 .. MaxCallbacks : c.called[j] > 0 },
      rank |-> c.rank,
      before |-> rcv[i] ]

\* ---------------------------------------------------------------- Pool._handle_packets
\* the loop  for cb in self.callbacks  over one cluster:
\*     all_callbacks_fired = all_callbacks_fired and cb.try_call(cluster)
\* (Python's "and" does not evaluate try_call once all_callbacks_fired is False)
RECURSIVE CallbackLoop(_, _, _)
CallbackLoop(cbs, i, st) ==
    IF i > Len(cbs) THEN st
    ELSE IF ~ st.all_callbacks_fired THEN CallbackLoop(cbs, i + 1, st)
    ELSE LET r == try_call(cbs[i], st.cluster)
         IN  CallbackLoop(cbs, i + 1,
                IF r.invoked
                THEN [ all_callbacks_fired |-> r.ret,
                       cluster |-> [st.cluster EXCEPT !.called[i] = Min(@ + 1, 2)],
                       calls |-> Append(st.calls, CallRecord(i, st.cluster, st.received)),
                       received |-> [st.received EXCEPT ![i] = Max(@, st.cluster.rank)] ]
                ELSE [st EXCEPT !.all_callbacks_fired = r.ret])

\* the loop  for id in cluster_cache.keys()  that tries the callbacks
RECURSIVE ClusterLoop(_, _, _, _)
ClusterLoop(cbs, cache, k, acc) ==
    IF k > Len(cache) THEN acc
    ELSE LET r == CallbackLoop(cbs, 1,
                    [ all_callbacks_fired |-> TRUE, cluster |-> cache[k],
                      calls |-> acc.calls, received |-> acc.received ])
         IN  ClusterLoop(cbs, cache, k + 1,
                [ cache |-> Append(acc.cache, r.cluster),
                  calls |-> r.calls,
                  received |-> r.received,
                  stale |-> IF r.all_callbacks_fired
                            THEN acc.stale \cup {cache[k].id} ELSE acc.stale ])

\* is the cluster older than the timeout?
\* the age test as it would be with >= in place of >
Stale_early(c) == c.age >= ota_cache_timeout

Stale(c) == c.age > ota_cache_timeout

\* the loop that marks the clusters older than the timeout
Aged(cache) == { cache[k].id : k \in SelectIdx(cache, Stale) }

\* for id in stale: del cluster_cache[id]
DeleteAll(cache, stale) == SelectSeq(cache, LAMBDA c : c.id \notin stale)

\* cluster_cache = self.cluster_cache_calib if serialized_csi.is_calib
\*                 else self.cluster_cache_ota
\* the cache selection as it would be if is_calib were ignored
SelectCache_ota(serialized_csi) == "ota"

SelectCache(serialized_csi) == IF serialized_csi.is_calib THEN "calib" ELSE "ota"

\* look up or create the cluster of a record, then add the record to it
Cluster(cache, id) == CHOOSE k \in DOMAIN cache : cache[k].id = id

AddToCache(cache, pkt) ==
    LET id == ClusterId(Serialized(pkt))
        cache1 == IF \E k \in DOMAIN cache : cache[k].id = id
                  THEN cache
                  ELSE Append(cache, ClusteredCSI(id, boardcount))
        k == Cluster(cache1, id)
    IN  [cache1 EXCEPT ![k] = add_csi(@, pkt.board_num, pkt.esp_num, Serialized(pkt))]

\* the cache with the completion rank n given to the cluster that has just
\* become complete
Ranked(cache, n) ==
    [ k \in DOMAIN cache |->
        IF cache[k].csi_completion_state_all /\ cache[k].rank = 0
        THEN [cache[k] EXCEPT !.rank = n] ELSE cache[k] ]

JustCompleted(cache) ==
    \E k \in DOMAIN cache : cache[k].csi_completion_state_all /\ cache[k].rank = 0

\* what is recorded of one  del cluster_cache[id]: the cluster and the number of
\* callbacks registered at that time
Eviction(c, n) == [id |-> c.id, age |-> c.age, called |-> c.called, registered |-> n]

\* the (callback, cluster key) pairs of the deleted clusters that had been
\* delivered: callback i was invoked with the cluster of that key before the
\* cluster was deleted
Gone(evicted) ==
    UNION { { << i, e.id >> : i \in { j \in 1 .. MaxCallbacks : e.called[j] > 0 } } :
                e \in evicted }

\* the over-the-air part of the loop body: try the callbacks, collect the stale
\* clusters and delete them
Deliver(cbs, cache, rcv) ==
    LET pass == ClusterLoop(cbs, cache, 1,
                    [cache |-> << >>, calls |-> << >>, received |-> rcv, stale |-> {}])
        stale == pass.stale \cup Aged(pass.cache)
    IN  [ cache |-> DeleteAll(pass.cache, stale),
          calls |-> pass.calls,
          received |-> pass.received,
          evicted |-> { Eviction(pass.cache[k], Len(cbs)) :
                            k \in SelectIdx(pass.cache, LAMBDA c : c.id \in stale) } ]

\* ---------------------------------------------------------------- actions
\* Board._csistream_handle_message of board b for the next record of its stream:
\*     with cv: clist.append((packet.esp_num, serialized_csi, *args)); cv.notify()
\* seq is the position of the record in the stream of its board.
csistream_handle_message(b) ==
    /\ stream[b] # << >>
    /\ Len(input_list) < MaxQueue
    /\ LET r == Head(stream[b])
       IN  input_list' = Append(input_list,
                [ esp_num |-> r.esp_num, key |-> r.key, is_calib |-> r.is_calib,
                  channel |-> r.channel, cwb |-> r.cwb,
                  secondary_channel |-> r.secondary_channel,
                  board_num |-> b, seq |-> sent[b] + 1 ])
    /\ stream' = [stream EXCEPT ![b] = Tail(@)]
    /\ sent' = [sent EXCEPT ![b] = @ + 1]
    /\ UNCHANGED beside_pool
    /\ UNCHANGED << boardcount, callbacks, cluster_cache_ota, cluster_cache_calib, stats,
                    stored_calibration, raised, calibrating, calib_mode, pc, packets,
                    last_pkt, last_calls, last_evicted, ncompleted, received,
                    add_count, last_seq, gone >>

\* Pool.add_csi_callback
add_csi_callback(p) ==
    /\ Len(callbacks) < MaxCallbacks
    /\ callbacks' = Append(callbacks, CSICallback(p))
    /\ UNCHANGED beside_pool
    /\ UNCHANGED << boardcount, input_list, cluster_cache_ota, cluster_cache_calib, stats,
                    stored_calibration, raised, calibrating, calib_mode, pc, packets, stream, sent,
                    last_pkt, last_calls, last_evicted, ncompleted, received,
                    add_count, last_seq, gone >>

\* what the drain takes out of the queue, and what it leaves there
Drained(q) == q

\* the queue after the copy as it would be without input_list.clear()
Remaining_kept(q) == q

Remaining(q) == << >>

\* Pool.run up to the call of _handle_packets: under input_cond, wait (until
\* notified or for 0.5 s), copy the queue and clear it
run ==
    /\ pc = "wait"
    /\ packets' = Drained(input_list)
    /\ input_list' = Remaining(input_list)
    /\ stats' = Len(Drained(input_list))
    /\ pc' = "handle"
    /\ UNCHANGED beside_pool
    /\ UNCHANGED << boardcount, callbacks, cluster_cache_ota, cluster_cache_calib,
                    stored_calibration, raised, calibrating, calib_mode, stream, sent,
                    last_pkt, last_calls, last_evicted, ncompleted, received,
                    add_count, last_seq, gone >>

\* one iteration of the loop  for pkt, csi_cplx in zip(packets, csi_bufs_complex):
\* add the record to its cluster in the selected cache and, for a record that is
\* not a calibration record, try the callbacks on the selected cache and delete
\* its stale clusters
handle_packet ==
    /\ pc = "handle"
    /\ packets # << >>
    /\ LET pkt == Head(packets)
           which == SelectCache(Serialized(pkt))
           cluster_cache == IF which = "calib" THEN cluster_cache_calib ELSE cluster_cache_ota
           added == AddToCache(cluster_cache, pkt)
           n == IF which = "ota" /\ JustCompleted(added) THEN ncompleted + 1 ELSE ncompleted
           d == IF pkt.is_calib
                THEN [cache |-> added, calls |-> << >>, received |-> received, evicted |-> {}]
                ELSE Deliver(callbacks, IF which = "ota" THEN Ranked(added, n) ELSE added,
                             received)
       IN  /\ packets' = Tail(packets)
           /\ last_pkt' = << pkt >>
           /\ add_count' = [add_count EXCEPT ![pkt.board_num] = @ + 1]
           /\ last_seq' = [last_seq EXCEPT ![pkt.board_num] = pkt.seq]
           /\ gone' = gone \cup Gone(d.evicted)
           /\ cluster_cache_calib' = IF which = "calib" THEN d.cache ELSE cluster_cache_calib
           /\ cluster_cache_ota' = IF which = "ota" THEN d.cache ELSE cluster_cache_ota
           /\ last_calls' = d.calls
           /\ last_evicted' = d.evicted
           /\ ncompleted' = n
           /\ received' = d.received
    /\ UNCHANGED beside_pool
    /\ UNCHANGED << boardcount, callbacks, input_list, stats, stored_calibration, raised,
                    calibrating, calib_mode, pc, stream, sent >>

\* _handle_packets and run return
run_return ==
    /\ pc = "handle"
    /\ packets = << >>
    /\ pc' = "wait"
    /\ UNCHANGED beside_pool
    /\ UNCHANGED << boardcount, callbacks, input_list, cluster_cache_ota,
                    cluster_cache_calib, stats, stored_calibration, raised, calibrating,
                    calib_mode, packets, stream, sent, last_pkt, last_calls,
                    last_evicted, ncompleted, received, add_count, last_seq, gone >>

\* Pool.calibrate up to its collection loop: clear the calibration cache and
\* switch every board to calibration mode
calibrate_begin ==
    /\ pc = "wait"
    /\ ~ calibrating
    /\ cluster_cache_calib' = << >>
    /\ calib_mode' = [b \in Boards |-> TRUE]
    /\ calibrating' = TRUE
    /\ UNCHANGED beside_pool
    /\ UNCHANGED << boardcount, callbacks, input_list, cluster_cache_ota, stats,
                    stored_calibration, raised, pc, packets, stream, sent, last_pkt,
                    last_calls, last_evicted, ncompleted, received, add_count, last_seq, gone >>

\* the clusters of the calibration cache in which every slot of board b is filled
CompleteFor(cache, b) ==
    SelectSeq(cache, LAMBDA c :
        \A s \in Slots(c.boardcount) : s[1] = b => s \in c.csi_completion_state)

\* the clusters of the calibration cache in which every slot is filled
CompleteAll(cache) ==
    SelectSeq(cache, LAMBDA c : c.csi_completion_state = Slots(c.boardcount))

\* slot s comes no later than slot t in the nested loops over boards, rows and
\* columns
NoLater(s, t) ==
    \/ s[1] < t[1]
    \/ s[1] = t[1] /\ s[2] < t[2]
    \/ s[1] = t[1] /\ s[2] = t[2] /\ s[3] <= t[3]

\* ClusteredCSI._first_complete_sensor
first_complete_sensor(c) ==
    LET filled == DOMAIN c.serialized_csi_all
        first == CHOOSE s \in filled : \A t \in filled : NoLater(s, t)
    IN  c.serialized_csi_all[first]

\* ClusteredCSI.is_ht40
is_ht40(c) == first_complete_sensor(c).cwb = 1

\* ClusteredCSI.get_secondary_channel_relative
get_secondary_channel_relative(c) ==
    LET secondary_channel == first_complete_sensor(c).secondary_channel
    IN  IF secondary_channel = 2 THEN 0 - 1 ELSE secondary_channel

\* ClusteredCSI.get_primary_channel
get_primary_channel(c) == first_complete_sensor(c).channel

\* ClusteredCSI.get_secondary_channel
get_secondary_channel(c) == get_primary_channel(c) + 4 * get_secondary_channel_relative(c)

\* the two assertions at the head of ClusteredCSI.deserialize_csi_ht40
deserialize_csi_ht40_asserts(c) == is_ht40(c) /\ get_secondary_channel_relative(c) # 0

\* The loop over self.cluster_cache_calib.values() from its k-th cluster on, for
\* the boards of part (one board, or all of them); channels is
\* << channel_primary, channel_secondary >> (<< >>: both None), n the length of
\* complete_clusters.  The loop ends by a failed assertion ("assertion"), or
\* normally, and then "calibration failed" is raised iff n = 0.
RECURSIVE CollectClusters(_, _, _, _, _)
CollectClusters(cache, part, k, channels, n) ==
    IF k > Len(cache)
    THEN [raised |-> IF n = 0 THEN "failed" ELSE "none", channels |-> channels, complete |-> n]
    ELSE LET c == cache[k]
             here == << get_primary_channel(c), get_secondary_channel(c) >>
             completion ==
                \A s \in Slots(c.boardcount) : s[1] \in part => s \in c.csi_completion_state
         IN  IF channels # << >> /\ channels # here
             THEN [raised |-> "assertion", channels |-> channels, complete |-> n]
             ELSE IF completion /\ ~ deserialize_csi_ht40_asserts(c)
             THEN [raised |-> "assertion", channels |-> here, complete |-> n]
             ELSE CollectClusters(cache, part, k + 1, here, IF completion THEN n + 1 ELSE n)

\* the loop over the boards of the per_board branch, from board_num on; counts
\* holds the number of complete clusters of the boards before
RECURSIVE CollectBoards(_, _, _, _)
CollectBoards(cache, board_num, channels, counts) ==
    IF board_num = boardcount
    THEN [raised |-> "none", counts |-> counts]
    ELSE LET r == CollectClusters(cache, { board_num }, 1, channels, 0)
         IN  IF r.raised # "none"
             THEN [raised |-> r.raised, counts |-> counts]
             ELSE CollectBoards(cache, board_num + 1, r.channels, Append(counts, r.complete))

\* ClusteredCSI.get_sensor_timestamps: for every filled slot, the time at which
\* its sensor received the frame.  The value is kept as the pair of the frame
\* and the sensor; it is decoded from the timestamp fields of the record
\* (timestamp, global_timestamp_us, rxstart_time_cyc, rxstart_time_cyc_dec).
get_sensor_timestamps(c) == [s \in DOMAIN c.serialized_csi_all |-> << c.id, s >>]

\* what np.asarray(complete_clusters) holds for slot s: the HT40 samples of
\* that sensor in each of the clusters
ht40_samples(clusters, s) == [k \in DOMAIN clusters |-> << clusters[k].id, s >>]

\* what np.asarray(timestamp_offsets) holds for slot s
timestamp_offsets(clusters, s) ==
    [k \in DOMAIN clusters |-> get_sensor_timestamps(clusters[k])[s]]

\* np.asarray(phase_calibrations) as it would be if the list kept only the
\* board handled last
phase_calibrations_last(cache) ==
    [s \in { t \in Slots(boardcount) : t[1] = boardcount - 1 } |->
        ht40_samples(CompleteFor(cache, s[1]), s)]

\* np.asarray(phase_calibrations) of the per_board branch: for every slot, the
\* interpolation over the clusters that are complete for the board of the slot
phase_calibrations(cache) ==
    [s \in Slots(boardcount) |-> ht40_samples(CompleteFor(cache, s[1]), s)]

\* np.asarray(timestamp_calibrations) of the per_board branch: for every slot,
\* the mean over the same clusters
timestamp_calibrations(cache) ==
    [s \in Slots(boardcount) |-> timestamp_offsets(CompleteFor(cache, s[1]), s)]

\* the evaluation of the calibration cache by calibrate: what is raised, and the
\* calibration that is built if nothing is
Evaluation(cache, per_board) ==
    IF per_board
    THEN LET r == CollectBoards(cache, 0, << >>, << >>)
         IN  [ raised |-> r.raised,
               calibration |->
                   IF r.raised # "none" THEN << >>
                   ELSE << [ per_board |-> TRUE,
                             clusters |-> [b \in Boards |-> r.counts[b + 1]],
                             calibration_values_ht40 |-> phase_calibrations(cache),
                             timestamp_calibration_values |->
                                 timestamp_calibrations(cache) ] >> ]
    ELSE LET r == CollectClusters(cache, Boards, 1, << >>, 0)
         IN  [ raised |-> r.raised,
               calibration |->
                   IF r.raised # "none" THEN << >>
                   ELSE << [ per_board |-> FALSE,
                             clusters |-> [b \in Boards |-> r.complete],
                             calibration_values_ht40 |->
                                 [s \in Slots(boardcount) |->
                                     ht40_samples(CompleteAll(cache), s)],
                             timestamp_calibration_values |->
                                 [s \in Slots(boardcount) |->
                                     timestamp_offsets(CompleteAll(cache), s)] ] >> ]

\* self.stored_calibration after the evaluation, as it would be if a failed
\* calibration forgot the previous one
Assigned_forgotten(r, previous) == r.calibration

\* self.stored_calibration after the evaluation: the assignments at the end of
\* the two branches are reached only if nothing was raised
Assigned(r, previous) == IF r.raised = "none" THEN r.calibration ELSE previous

\* Pool.calibrate after its collection loop: leave calibration mode, then either
\* raise or store a new calibration
calibrate_end(per_board) ==
    /\ pc = "wait"
    /\ calibrating
    /\ calib_mode' = [b \in Boards |-> FALSE]
    /\ calibrating' = FALSE
    /\ LET r == Evaluation(cluster_cache_calib, per_board)
       IN  /\ raised' = r.raised
           /\ stored_calibration' = Assigned(r, stored_calibration)
    /\ UNCHANGED << backlog_vars, access_vars, cluster_vars, board_vars, further >>
    /\ UNCHANGED << boardcount, callbacks, input_list, cluster_cache_ota,
                    cluster_cache_calib, stats, pc, packets, stream, sent, last_pkt,
                    last_calls, last_evicted, ncompleted, received, add_count, last_seq, gone >>

\* one clock tick: every over-the-air cluster gets older
Older(c) == [c EXCEPT !.age = Min(@ + 1, ota_cache_timeout + 1)]

Tick ==
    /\ \E k \in DOMAIN cluster_cache_ota : cluster_cache_ota[k].age <= ota_cache_timeout
    /\ cluster_cache_ota' = [k \in DOMAIN cluster_cache_ota |-> Older(cluster_cache_ota[k])]
    /\ UNCHANGED beside_pool
    /\ UNCHANGED << boardcount, callbacks, input_list, cluster_cache_calib, stats,
                    stored_calibration, raised, calibrating, calib_mode, pc, packets, stream, sent,
                    last_pkt, last_calls, last_evicted, ncompleted, received,
                    add_count, last_seq, gone >>

\* ---------------------------------------------------------------- CSIBacklog
\* self.latest = None
None == -1

\* A ring row is a pair << cluster, calibrated >>: the data of the cluster with
\* that number (1, 2, ...), calibrated (1) or not (0).  Zero is a row of
\* np.zeros, NaN a row of np.nan.
Zero == << 0, 0 >>

NaN == << -1, 0 >>

Row6(v) == [i \in 1 .. 6 |-> v]

\* source MACs as ClusteredCSI.get_source_mac gives them: 12 hexadecimal digits
Macs == { << 10, 10, 11, 11, 12, 12, 0, 0, 0, 0, 0, 1 >>,
          << 1, 1, 2, 2, 3, 3, 0, 0, 0, 0, 0, 2 >> }

\* the clusters the pool may hand to the backlog next: number n, a source MAC, and
\* whether the first filled sensor saw an HT40 packet (ClusteredCSI.is_ht40)
Deliverable(n) ==
    { [id |-> n, source_mac |-> m, is_ht40 |-> h] : m \in Macs, h \in BOOLEAN }

\* mac = [int(mac_str[i:i+2], 16) for i in range(0, len(mac_str), 2)]
ParseMac(mac_str) == [i \in 1 .. (Len(mac_str) \div 2) |-> 16 * mac_str[2 * i - 1] + mac_str[2 * i]]

\* a[i] = value  on a ring array (rows 0 .. size-1 are kept at positions 1 .. size)
Store(a, i, value) == [a EXCEPT ![i + 1] = value]

\* the match as it would be if the whole address had to equal the filter
Match_full(filter, mac_str) ==
    /\ Len(filter) = Len(mac_str)
    /\ \A i \in DOMAIN filter : filter[i] = mac_str[i]

\* self.mac_filter.match(mac): the filters used are prefixes anchored at the start
Match(filter, mac_str) ==
    /\ Len(filter) <= Len(mac_str)
    /\ \A i \in DOMAIN filter : filter[i] = mac_str[i]

\* the data a step stores for cluster c: calibrated iff self.calibrate
Data(c) == << c.id, IF calibrate THEN 1 ELSE 0 >>

\* self.head = (self.head + 1) % self.size
\* the head advance as it would be if it stopped at the last slot
Advance_nowrap(h, n) == Min(h + 1, n - 1)

Advance(h, n) == (h + 1) % n

\* self.filllevel = min(self.filllevel + 1, self.size)
Raise(f, n) == Min(f + 1, n)

\* the HT40 row as it would be if the L-LTF step ran after the HT40 step
Ht40Row_swapped(c, old) ==
    LET after_ht40 == IF enable_ht40
                      THEN IF c.is_ht40 THEN Data(c) ELSE old
                      ELSE NaN
    IN  IF enable_lltf THEN after_ht40 ELSE NaN

\* the HT40 row after the L-LTF step and the HT40 step of new_csi_callback
Ht40Row(c, old) ==
    LET after_lltf == IF enable_lltf THEN old ELSE NaN
    IN  IF enable_ht40
        THEN IF c.is_ht40 THEN Data(c) ELSE after_lltf
        ELSE NaN

\* new_csi_callback returns at its MAC filter
Filtered(c) == mac_filter # << >> /\ ~ Match(mac_filter[1], c.source_mac)

\* assert(self.pool.get_calibration() is not None) fails in new_csi_callback
AssertionFails(c) == ~ Filtered(c) /\ calibrate /\ stored_calibration = << >>

\* CSICalibration.apply_lltf on the L-LTF samples of cluster c: the calibrated
\* samples of that cluster
apply_lltf(c) == << c.id, 1 >>

\* np.roll(a, shift, axis = 0): row i of the result is row (i - shift) mod n of a
Roll(a, shift) == [i \in 1 .. Len(a) |-> a[((i - 1 - shift) % Len(a)) + 1]]

\* a[start:] for a start that may be negative (Python slicing)
SliceFrom(a, start) ==
    LET n == Len(a)
        from == IF start < 0 THEN Max(n + start, 0) ELSE Min(start, n)
    IN  [i \in 1 .. (n - from) |-> a[from + i]]

\* np.roll(storage, -head, axis = 0)[-filllevel:] for given values of the members
WindowOf(storage, h, f) == SliceFrom(Roll(storage, 0 - h), 0 - f)

\* what a caller of the accessors finds while new_csi_callback has written the
\* row of the ring and head, latest and filllevel have the values h, l and f:
\* the last row get_timestamps(), get_rssi() and get_macs() return, and what
\* get_latest_timestamp() returns
View(h, l, f) ==
    LET last(storage) == WindowOf(storage, h, f)[Len(WindowOf(storage, h, f))]
    IN  [ timestamps |-> last(storage_timestamps'),
          rssi |-> last(storage_rssi'),
          macs |-> last(storage_macs'),
          latest |-> IF l = None THEN << >> ELSE << storage_timestamps'[l + 1] >> ]

\* what an update callback finds, as it would be if the callbacks were invoked
\* before latest, head and filllevel are advanced
Seen_early(h, l, f) == View(head, latest, filllevel)

\* what an update callback finds: it is invoked after the three assignments
Seen(h, l, f) == View(h, l, f)

\* for cb in self.callbacks: cb()
\* the invocations in the order of self.callbacks, where add_update_callback
\* appends
UpdateLoop ==
    [ i \in 1 .. update_callbacks |-> [cb |-> i, seen |-> Seen(head', latest', filllevel')] ]

\* the callback as it would be if it returned after the HT40 step whenever
\* HT40 storage is disabled
new_csi_callback_body_partial(c) ==
    IF Filtered(c) \/ AssertionFails(c)
    THEN /\ UNCHANGED << storage_ht40, storage_lltf, storage_timestamps, storage_rssi,
                         storage_macs, head, latest, filllevel, stored, notified >>
         /\ update_calls' = << >>
    ELSE /\ storage_timestamps' = Store(storage_timestamps, head, Data(c))
         /\ storage_lltf' = IF enable_lltf
                            THEN Store(storage_lltf, head,
                                       IF calibrate THEN apply_lltf(c) ELSE << c.id, 0 >>)
                            ELSE storage_lltf
         /\ storage_ht40' = Store(storage_ht40, head, Ht40Row(c, storage_ht40[head + 1]))
         /\ IF enable_ht40
            THEN /\ storage_rssi' = Store(storage_rssi, head, << c.id, 0 >>)
                 /\ storage_macs' = Store(storage_macs, head, ParseMac(c.source_mac))
                 /\ latest' = head
                 /\ head' = Advance(head, size)
                 /\ filllevel' = Raise(filllevel, size)
                 /\ stored' = Append(stored, c)
                 /\ notified' = notified + update_callbacks
                 /\ update_calls' = UpdateLoop
            ELSE /\ UNCHANGED << storage_rssi, storage_macs, latest, head, filllevel,
                                 stored, notified >>
                 /\ update_calls' = << >>

\* what new_csi_callback does to the ring
new_csi_callback_body(c) ==
    IF Filtered(c) \/ AssertionFails(c)
    THEN /\ UNCHANGED << storage_ht40, storage_lltf, storage_timestamps, storage_rssi,
                         storage_macs, head, latest, filllevel, stored, notified >>
         /\ update_calls' = << >>
    ELSE /\ storage_timestamps' = Store(storage_timestamps, head, Data(c))
         /\ storage_lltf' = IF enable_lltf
                            THEN Store(storage_lltf, head,
                                       IF calibrate THEN apply_lltf(c) ELSE << c.id, 0 >>)
                            ELSE storage_lltf
         /\ storage_ht40' = Store(storage_ht40, head, Ht40Row(c, storage_ht40[head + 1]))
         /\ storage_rssi' = Store(storage_rssi, head, << c.id, 0 >>)
         /\ storage_macs' = Store(storage_macs, head, ParseMac(c.source_mac))
         /\ latest' = head
         /\ head' = Advance(head, size)
         /\ filllevel' = Raise(filllevel, size)
         /\ stored' = Append(stored, c)
         /\ notified' = notified + update_callbacks
         /\ update_calls' = UpdateLoop

\* CSIBacklog.__init__.new_csi_callback: the pool callback of the backlog
new_csi_callback(c) ==
    /\ size > 0
    /\ delivered < MaxInserts
    /\ delivered' = delivered + 1
    /\ new_csi_callback_body(c)
    /\ UNCHANGED << size, enable_lltf, enable_ht40, calibrate, mac_filter, update_callbacks >>
    /\ UNCHANGED beside_backlog

\* CSIBacklog.nonempty
nonempty == latest # None

\* CSIBacklog.get_latest_timestamp: << >> for None, else << the mean of the
\* timestamps row of slot latest >> (a row is kept as one value)
get_latest_timestamp == IF latest = None THEN << >> ELSE << storage_timestamps[latest + 1] >>

\* CSIBacklog.add_update_callback
add_update_callback ==
    /\ size > 0
    /\ update_callbacks < MaxUpdateCallbacks
    /\ update_callbacks' = update_callbacks + 1
    /\ UNCHANGED << size, enable_lltf, enable_ht40, calibrate, storage_ht40, storage_lltf,
                    storage_timestamps, storage_rssi, storage_macs, head, latest,
                    filllevel, mac_filter, delivered, stored, notified, update_calls >>
    /\ UNCHANGED beside_backlog

\* the filters the application installs: "^AABBCC"
Filters == { << 10, 10, 11, 11, 12, 12 >> }

\* CSIBacklog.set_mac_filter
set_mac_filter(filter_regex) ==
    /\ size > 0
    /\ mac_filter # << filter_regex >>
    /\ mac_filter' = << filter_regex >>
    /\ UNCHANGED << size, enable_lltf, enable_ht40, calibrate, storage_ht40, storage_lltf,
                    storage_timestamps, storage_rssi, storage_macs, head, latest,
                    filllevel, update_callbacks, delivered, stored, notified, update_calls >>
    /\ UNCHANGED beside_backlog

\* np.roll(storage, -self.head, axis = 0)[-self.filllevel:]
Window(storage) == SliceFrom(Roll(storage, 0 - head), 0 - filllevel)

get_lltf == Window(storage_lltf)

get_ht40 == Window(storage_ht40)

get_rssi == Window(storage_rssi)

get_timestamps == Window(storage_timestamps)

get_macs == Window(storage_macs)

\* ------------------------------------------------ one board and its reader
\* timeout_total is a double.  It is kept as the exact sum in milliseconds and
\* the sign of (the double - the exact sum): Rounding[n] is that sign after n
\* additions of the double 0.2 to 0.0 in IEEE 754 binary64 arithmetic.
Rounding ==
    << 1, 1, 1, 1, 0, -1, -1, -1, -1, -1, -1, -1, 1, 1, 1, 1, 1, 1, 1, 1, 1, 1, 1, 1,
       1, 1, 1 >>

\* timeout_total = 0
NoSilence == [ms |-> 0, excess |-> 0]

\* timeout_total + timeout_once
FloatAdd(total) ==
    LET n == (total.ms + timeout_once) \div timeout_once
    IN  [ms |-> total.ms + timeout_once, excess |-> Rounding[Min(n, Len(Rounding))]]

\* timeout_total > limit, limit a whole number of milliseconds
Greater(total, limit) ==
    \/ total.ms > limit
    \/ total.ms = limit /\ total.excess > 0

\* a csistream_pkt_t: the sensor number and the type_header of its buffer
Pkt(esp_num, type_header) == [esp_num |-> esp_num, type_header |-> type_header]

\* a WebSocket message: its packets, and whether its length is a whole number
\* of packets (if not, a part of one more packet follows the packets)
Msg(whole, pkts) == [whole |-> whole, packets |-> pkts]

\* the messages a controller sends
Messages ==
    { Msg(TRUE, << Pkt(0, ESPARGOS_SPI_TYPE_HEADER_CSI) >>),
      Msg(TRUE, << Pkt(1, ESPARGOS_SPI_TYPE_HEADER_CSI), Pkt(2, 0) >>),
      Msg(TRUE, << Pkt(3, 0) >>),
      Msg(FALSE, << Pkt(4, ESPARGOS_SPI_TYPE_HEADER_CSI) >>) }

\* an item that always carries the index of the first board
Item_first(packet, args) ==
    [esp_num |-> packet.esp_num, serialized_csi |-> packet.type_header, args |-> 0]

\* (packet.esp_num, serialized_csi, *args)
Item(packet, args) ==
    [esp_num |-> packet.esp_num, serialized_csi |-> packet.type_header, args |-> args]

Consumers == 1 .. MaxConsumers

\* Board.start
board_start ==
    /\ t_pc = "none"
    /\ t_pc' = "connect"
    /\ UNCHANGED << csistream_connected, consumers, clists, cv_owner, timeout_total,
                    message, m_i, m_j, s_pc, got, notifications, last_message >>
    /\ UNCHANGED beside_board

\* _csistream_loop, lines 121-124: the connection is made
t_connect ==
    /\ t_pc = "connect"
    /\ csistream_connected' = TRUE
    /\ timeout_total' = NoSilence
    /\ t_pc' = "while"
    /\ UNCHANGED << consumers, clists, cv_owner, message, m_i, m_j, s_pc, got,
                    notifications, last_message >>
    /\ UNCHANGED beside_board

\* while self.csistream_connected
t_while ==
    /\ t_pc = "while"
    /\ t_pc' = IF csistream_connected THEN "recv" ELSE "exit"
    /\ UNCHANGED << csistream_connected, consumers, clists, cv_owner, timeout_total,
                    message, m_i, m_j, s_pc, got, notifications, last_message >>
    /\ UNCHANGED beside_board

\* websocket.recv returns m; timeout_total = 0; _csistream_handle_message begins
\* with assert(len(message) % pktsize == 0)
t_recv(m) ==
    /\ t_pc = "recv"
    /\ timeout_total' = NoSilence
    /\ last_message' = << m, Len(consumers) >>
    /\ got' = [k \in Consumers |-> << >>]
    /\ notifications' = [k \in Consumers |-> 0]
    /\ IF m.whole
       THEN /\ t_pc' = "packet"
            /\ message' = << m >>
            /\ m_i' = 1
            /\ m_j' = 1
       ELSE /\ t_pc' = "dead"
            /\ UNCHANGED << message, m_i, m_j >>
    /\ UNCHANGED << csistream_connected, consumers, clists, cv_owner, s_pc >>
    /\ UNCHANGED beside_board

\* websocket.recv raises TimeoutError
t_timeout ==
    /\ t_pc = "recv"
    /\ timeout_total' = FloatAdd(timeout_total)
    /\ t_pc' = "check"
    /\ UNCHANGED << csistream_connected, consumers, clists, cv_owner, message, m_i, m_j,
                    s_pc, got, notifications, last_message >>
    /\ UNCHANGED beside_board

\* _csistream_handle_message, lines 110-116: the next packet, the next consumer,
\* and the acquisition of its condition variable
t_packet ==
    /\ t_pc = "packet"
    /\ LET pkts == message[1].packets IN
       IF m_i > Len(pkts)
       THEN /\ t_pc' = "check"
            /\ message' = << >>
            /\ UNCHANGED << m_i, m_j, cv_owner >>
       ELSE IF pkts[m_i].type_header # ESPARGOS_SPI_TYPE_HEADER_CSI \/ m_j > Len(consumers)
       THEN /\ m_i' = m_i + 1
            /\ m_j' = 1
            /\ UNCHANGED << t_pc, message, cv_owner >>
       ELSE /\ cv_owner[m_j] = "free"
            /\ Len(clists[m_j]) < MaxQueue
            /\ cv_owner' = [cv_owner EXCEPT ![m_j] = "reader"]
            /\ t_pc' = "append"
            /\ UNCHANGED << message, m_i, m_j >>
    /\ UNCHANGED << csistream_connected, consumers, clists, timeout_total, s_pc, got,
                    notifications, last_message >>
    /\ UNCHANGED beside_board

\* clist.append((packet.esp_num, serialized_csi, *args))
t_append ==
    /\ t_pc = "append"
    /\ LET item == Item(message[1].packets[m_i], consumers[m_j])
       IN  /\ clists' = [clists EXCEPT ![m_j] = Append(@, item)]
           /\ got' = [got EXCEPT ![m_j] = Append(@, item)]
    /\ t_pc' = "notify"
    /\ UNCHANGED << csistream_connected, consumers, cv_owner, timeout_total, message, m_i,
                    m_j, s_pc, notifications, last_message >>
    /\ UNCHANGED beside_board

\* cv.notify(), and the end of "with cv"
t_notify ==
    /\ t_pc \in { "notify", "release" }
    /\ IF t_pc = "notify"
       THEN /\ notifications' = [notifications EXCEPT ![m_j] = @ + 1]
            /\ t_pc' = "release"
            /\ UNCHANGED << cv_owner, m_j >>
       ELSE /\ cv_owner' = [cv_owner EXCEPT ![m_j] = "free"]
            /\ m_j' = m_j + 1
            /\ t_pc' = "packet"
            /\ UNCHANGED notifications
    /\ UNCHANGED << csistream_connected, consumers, clists, timeout_total, message, m_i,
                    s_pc, got, last_message >>
    /\ UNCHANGED beside_board

\* if timeout_total > self._csistream_timeout: self.csistream_connected = False
t_check ==
    /\ t_pc = "check"
    /\ csistream_connected' = IF Greater(timeout_total, csistream_timeout)
                              THEN FALSE
                              ELSE csistream_connected
    /\ t_pc' = "while"
    /\ UNCHANGED << consumers, clists, cv_owner, timeout_total, message, m_i, m_j, s_pc,
                    got, notifications, last_message >>
    /\ UNCHANGED beside_board

\* Board.stop, called after start: if self.csistream_connected
stop_begin ==
    /\ s_pc = "idle"
    /\ t_pc # "none"
    /\ s_pc' = IF csistream_connected THEN "set" ELSE "returned"
    /\ UNCHANGED << csistream_connected, consumers, clists, cv_owner, t_pc, timeout_total,
                    message, m_i, m_j, got, notifications, last_message >>
    /\ UNCHANGED beside_board

\* self.csistream_connected = False
stop_set ==
    /\ s_pc = "set"
    /\ csistream_connected' = FALSE
    /\ s_pc' = "join"
    /\ UNCHANGED << consumers, clists, cv_owner, t_pc, timeout_total, message, m_i, m_j,
                    got, notifications, last_message >>
    /\ UNCHANGED beside_board

\* self.csistream_thread.join() returns once the thread has ended
stop_join ==
    /\ s_pc = "join"
    /\ t_pc \in { "exit", "dead" }
    /\ s_pc' = "returned"
    /\ UNCHANGED << csistream_connected, consumers, clists, cv_owner, t_pc, timeout_total,
                    message, m_i, m_j, got, notifications, last_message >>
    /\ UNCHANGED beside_board

\* Board.add_consumer(clist, cv, *args)
add_consumer(args) ==
    /\ Len(consumers) < MaxConsumers
    /\ consumers' = Append(consumers, args)
    /\ UNCHANGED << csistream_connected, clists, cv_owner, t_pc, timeout_total, message,
                    m_i, m_j, s_pc, got, notifications, last_message >>
    /\ UNCHANGED beside_board

\* a consumer takes its list: "with cv:", then the copy and clear (Pool.run)
consumer_take(k) ==
    /\ k \in DOMAIN consumers
    /\ IF cv_owner[k] = "consumer"
       THEN /\ clists' = [clists EXCEPT ![k] = << >>]
            /\ cv_owner' = [cv_owner EXCEPT ![k] = "free"]
       ELSE /\ cv_owner[k] = "free"
            /\ clists[k] # << >>
            /\ cv_owner' = [cv_owner EXCEPT ![k] = "consumer"]
            /\ UNCHANGED clists
    /\ UNCHANGED << csistream_connected, consumers, t_pc, timeout_total, message, m_i, m_j,
                    s_pc, got, notifications, last_message >>
    /\ UNCHANGED beside_board

\* the steps of the reader thread
t_step ==
    \/ t_connect
    \/ t_while
    \/ \E m \in Messages : t_recv(m)
    \/ t_timeout
    \/ t_packet
    \/ t_append
    \/ t_notify
    \/ t_check

\* Board.__init__ (csistream_connected = True, consumers = []) followed by
\* Pool.__init__, which registers its list with the position of the board
InitBoard(board_num) ==
    /\ csistream_connected = TRUE
    /\ consumers = << board_num >>
    /\ clists = [k \in Consumers |-> << >>]
    /\ cv_owner = [k \in Consumers |-> "free"]
    /\ t_pc = "none"
    /\ timeout_total = NoSilence
    /\ message = << >>
    /\ m_i = 1
    /\ m_j = 1
    /\ s_pc = "idle"
    /\ got = [k \in Consumers |-> << >>]
    /\ notifications = [k \in Consumers |-> 0]
    /\ last_message = << >>

\* no board is looked at on its own
NoReader ==
    /\ csistream_connected = FALSE
    /\ consumers = << >>
    /\ clists = << >>
    /\ cv_owner = << >>
    /\ t_pc = "none"
    /\ timeout_total = NoSilence
    /\ message = << >>
    /\ m_i = 1
    /\ m_j = 1
    /\ s_pc = "returned"
    /\ got = << >>
    /\ notifications = << >>
    /\ last_message = << >>

\* ------------------------------------------------- one cluster on its own
\* a serialized_csi_t record of frame key that carries payload p: its CSI
\* buffer, and the rssi and noise_floor of its rx_ctrl
Record(key, p) ==
    [key |-> key, is_calib |-> FALSE, buf |-> p, rssi |-> 0 - 40 - p,
     noise_floor |-> 0 - 90 - p]

\* complex_csi_all, rssi_all and noise_floor_all of a filled slot: add_csi writes
\* them from the record in the same call that stores the record
complex_csi_all(c, slot) == c.serialized_csi_all[slot].buf

rssi_all(c, slot) == c.serialized_csi_all[slot].rssi

noise_floor_all(c, slot) == c.serialized_csi_all[slot].noise_floor

\* cluster.add_csi(board_num, esp_num, serialized_csi, csi_cplx); the assertions
\* of add_csi stop a record of another frame
cluster_add(board_num, esp_num, serialized_csi) ==
    /\ adds < MaxAdds
    /\ adds' = adds + 1
    /\ cluster' = IF ClusterId(serialized_csi) = cluster.id
                  THEN add_csi(cluster, board_num, esp_num, serialized_csi)
                  ELSE cluster
    /\ UNCHANGED << pool_vars, stored_calibration, raised, backlog_vars, access_vars, board_vars, further >>

\* no ClusteredCSI object is looked at on its own
NoCluster ==
    /\ cluster = ClusteredCSI(0, 0)
    /\ adds = 0
    /\ NoReader

\* ------------------------------------------- the backlog without atomicity
\* The backlog thread runs new_csi_callback while the main thread calls the read
\* accessors; no lock is taken on either side, so the statements interleave.
Accessors == { "get_lltf", "get_ht40", "get_rssi", "get_timestamps", "get_macs" }

\* the array an accessor reads
StorageOf(a) ==
    CASE a = "get_lltf" -> storage_lltf
      [] a = "get_ht40" -> storage_ht40
      [] a = "get_rssi" -> storage_rssi
      [] a = "get_timestamps" -> storage_timestamps
      [] a = "get_macs" -> storage_macs

\* what accessor a returns when it runs as a whole
Read(a) == Window(StorageOf(a))

\* new_csi_callback, lines 41-50: the filter, the assertion, the timestamps
insert_begin(c) ==
    /\ size > 0
    /\ w_pc = "idle"
    /\ delivered < MaxRaced
    /\ delivered' = delivered + 1
    /\ IF \/ mac_filter # << >> /\ ~ Match(mac_filter[1], c.source_mac)
          \/ calibrate /\ stored_calibration = << >>
       THEN UNCHANGED << w_pc, w_cluster, w_before, overlap >>
       ELSE /\ w_pc' = "timestamps"
            /\ w_cluster' = << c >>
            /\ w_before' = [a \in Accessors |-> Read(a)]
            /\ overlap' = (r_pc \in { "head", "roll", "slice" })
    /\ UNCHANGED << size, enable_lltf, enable_ht40, calibrate, storage_ht40, storage_lltf,
                    storage_timestamps, storage_rssi, storage_macs, head, latest,
                    filllevel, mac_filter, update_callbacks, stored, notified >>
    /\ update_calls' = << >>
    /\ UNCHANGED << r_pc, r_which, r_head, r_rolled, r_result, views >>
    /\ UNCHANGED << pool_vars, stored_calibration, raised, cluster_vars, board_vars, further >>

\* the statement after statement p of new_csi_callback
Following(p) ==
    CASE p = "timestamps" -> "lltf"
      [] p = "lltf" -> "ht40"
      [] p = "ht40" -> "rssi"
      [] p = "rssi" -> "macs"
      [] p = "macs" -> "latest"
      [] p = "latest" -> "head"
      [] p = "head" -> "filllevel"
      [] p = "filllevel" -> "callbacks"
      [] p = "callbacks" -> "idle"

\* new_csi_callback, lines 51-93: one statement
insert_step ==
    LET c == w_cluster[1] IN
    /\ w_pc # "idle"
    /\ w_pc' = Following(w_pc)
    /\ storage_timestamps' = IF w_pc = "timestamps"
                             THEN Store(storage_timestamps, head, Data(c))
                             ELSE storage_timestamps
    /\ storage_lltf' = IF w_pc = "lltf" /\ enable_lltf
                       THEN Store(storage_lltf, head, Data(c))
                       ELSE storage_lltf
    /\ storage_ht40' =
          CASE w_pc = "lltf" /\ ~ enable_lltf -> Store(storage_ht40, head, NaN)
            [] w_pc = "ht40" /\ enable_ht40 /\ c.is_ht40 -> Store(storage_ht40, head, Data(c))
            [] w_pc = "ht40" /\ ~ enable_ht40 -> Store(storage_ht40, head, NaN)
            [] OTHER -> storage_ht40
    /\ storage_rssi' = IF w_pc = "rssi"
                       THEN Store(storage_rssi, head, << c.id, 0 >>)
                       ELSE storage_rssi
    /\ storage_macs' = IF w_pc = "macs"
                       THEN Store(storage_macs, head, ParseMac(c.source_mac))
                       ELSE storage_macs
    /\ latest' = IF w_pc = "latest" THEN head ELSE latest
    /\ head' = IF w_pc = "head" THEN Advance(head, size) ELSE head
    /\ filllevel' = IF w_pc = "filllevel" THEN Raise(filllevel, size) ELSE filllevel
    /\ IF w_pc = "callbacks"
       THEN /\ notified' = notified + update_callbacks
            /\ update_calls' = UpdateLoop
            /\ stored' = Append(stored, c)
            /\ w_cluster' = << >>
            /\ views' = IF overlap THEN views \cup { Read(r_which) } ELSE views
            /\ overlap' = FALSE
       ELSE UNCHANGED << notified, update_calls, stored, w_cluster, views, overlap >>
    /\ UNCHANGED << size, enable_lltf, enable_ht40, calibrate, mac_filter,
                    update_callbacks, delivered, w_before >>
    /\ UNCHANGED << r_pc, r_which, r_head, r_rolled, r_result >>
    /\ UNCHANGED << pool_vars, stored_calibration, raised, cluster_vars, board_vars, further >>

\* the main thread calls accessor a
read_begin(a) ==
    /\ size > 0
    /\ r_pc = "idle"
    /\ a = "get_ht40" => enable_ht40
    /\ r_pc' = "head"
    /\ r_which' = a
    /\ views' = { IF w_pc = "idle" THEN Read(a) ELSE w_before[a] }
    /\ overlap' = (w_pc # "idle")
    /\ UNCHANGED << w_pc, w_cluster, w_before, r_head, r_rolled, r_result >>
    /\ UNCHANGED << backlog_vars, pool_vars, stored_calibration, raised, cluster_vars, board_vars, further >>

\* the operand -self.head is evaluated
read_head ==
    /\ r_pc = "head"
    /\ r_head' = head
    /\ r_pc' = "roll"
    /\ UNCHANGED << w_pc, w_cluster, w_before, overlap, r_which, r_rolled, r_result, views >>
    /\ UNCHANGED << backlog_vars, pool_vars, stored_calibration, raised, cluster_vars, board_vars, further >>

\* np.roll(self.storage_..., -self.head, axis = 0) copies the array
read_roll ==
    /\ r_pc = "roll"
    /\ r_rolled' = Roll(StorageOf(r_which), 0 - r_head)
    /\ r_pc' = "slice"
    /\ UNCHANGED << w_pc, w_cluster, w_before, overlap, r_which, r_head, r_result, views >>
    /\ UNCHANGED << backlog_vars, pool_vars, stored_calibration, raised, cluster_vars, board_vars, further >>

\* [-self.filllevel:] is evaluated and the accessor returns
read_slice ==
    /\ r_pc = "slice"
    /\ r_result' = << SliceFrom(r_rolled, 0 - filllevel) >>
    /\ r_pc' = "done"
    /\ UNCHANGED << w_pc, w_cluster, w_before, overlap, r_which, r_head, r_rolled, views >>
    /\ UNCHANGED << backlog_vars, pool_vars, stored_calibration, raised, cluster_vars, board_vars, further >>

\* no thread is inside new_csi_callback or inside a read accessor
NoAccess ==
    /\ w_pc = "idle"
    /\ w_cluster = << >>
    /\ r_pc = "idle"
    /\ r_which = "none"
    /\ r_head = 0
    /\ r_rolled = << >>
    /\ r_result = << >>
    /\ w_before = << >>
    /\ overlap = FALSE
    /\ views = {}

\* the backlog variables while no backlog has been constructed
NoBacklog ==
    /\ NoAccess
    /\ NoCluster
    /\ size = 0
    /\ enable_lltf = TRUE
    /\ enable_ht40 = TRUE
    /\ calibrate = TRUE
    /\ storage_ht40 = << >>
    /\ storage_lltf = << >>
    /\ storage_timestamps = << >>
    /\ storage_rssi = << >>
    /\ storage_macs = << >>
    /\ head = 0
    /\ latest = None
    /\ filllevel = 0
    /\ mac_filter = << >>
    /\ update_callbacks = 0
    /\ delivered = 0
    /\ stored = << >>
    /\ notified = 0
    /\ update_calls = << >>

\* CSIBacklog.__init__(pool, enable_lltf, enable_ht40, calibrate, size = n)
InitBacklog(n, lltf, ht40, cal) ==
    /\ NoAccess
    /\ NoCluster
    /\ size = n
    /\ enable_lltf = lltf
    /\ enable_ht40 = ht40
    /\ calibrate = cal
    /\ storage_ht40 = [i \in 1 .. n |-> Zero]
    /\ storage_lltf = [i \in 1 .. n |-> Zero]
    /\ storage_timestamps = [i \in 1 .. n |-> Zero]
    /\ storage_rssi = [i \in 1 .. n |-> Zero]
    /\ storage_macs = [i \in 1 .. n |-> Row6(0)]
    /\ head = 0
    /\ latest = None
    /\ filllevel = 0
    /\ mac_filter = << >>
    /\ update_callbacks = 0
    /\ delivered = 0
    /\ stored = << >>
    /\ notified = 0
    /\ update_calls = << >>

\* ------------------------------------------- the threads that call Pool.run()
\* The producer thread of the backlog runs CSIBacklog.__run; the application
\* thread calls CSIBacklog.start, CSIBacklog.stop, Pool.run and Pool.calibrate.
\* Positions of a thread: "wait" (in Pool.run, before the queue is copied) and
\* "handle" (in _handle_packets); of the producer also "none" (not created),
\* "while" (at the loop test), "call" (past the test, before the call of
\* Pool.run) and "done" (terminated); of the application also "idle" (between
\* two calls, or between two iterations of the loop of Pool.calibrate) and
\* "join" (in CSIBacklog.stop, at self.thread.join()).

\* the cluster as new_csi_callback reads it
Delivered(c) ==
    [id |-> c.id,
     source_mac |-> CHOOSE m \in Macs : m[12] = ((c.id + 1) % 2) + 1,
     is_ht40 |-> is_ht40(c)]

\* CSIBacklog.start
backlog_start ==
    /\ th_pc["application"] = "idle"
    /\ ~ calibrating
    /\ th_pc["producer"] \in { "none", "done" }
    /\ th_pc' = [th_pc EXCEPT !["producer"] = "while"]
    /\ started' = TRUE
    /\ UNCHANGED << running, th_packets, stop_returned, further_runs, storer >>
    /\ UNCHANGED << beside_threads, ring_vars, delivered, cache_vars, input_list, stats >>

\* CSIBacklog.stop: self.running = False
backlog_stop_set ==
    /\ th_pc["application"] = "idle"
    /\ ~ calibrating
    /\ started
    /\ running' = FALSE
    /\ th_pc' = [th_pc EXCEPT !["application"] = "join"]
    /\ UNCHANGED << th_packets, started, stop_returned, further_runs, storer >>
    /\ UNCHANGED << beside_threads, ring_vars, delivered, cache_vars, input_list, stats >>

\* CSIBacklog.stop: self.thread.join() returns once the thread has terminated
backlog_stop_join ==
    /\ th_pc["application"] = "join"
    /\ th_pc["producer"] = "done"
    /\ th_pc' = [th_pc EXCEPT !["application"] = "idle"]
    /\ stop_returned' = TRUE
    /\ UNCHANGED << running, th_packets, started, further_runs, storer >>
    /\ UNCHANGED << beside_threads, ring_vars, delivered, cache_vars, input_list, stats >>

\* the loop test as it would be if the thread never looked at the flag
backlog_run_while_deaf ==
    /\ th_pc["producer"] = "while"
    /\ th_pc' = [th_pc EXCEPT !["producer"] = "call"]
    /\ UNCHANGED << running, th_packets, started, stop_returned, further_runs, storer >>
    /\ UNCHANGED << beside_threads, ring_vars, delivered, cache_vars, input_list, stats >>

\* CSIBacklog.__run:  while self.running:
backlog_run_while ==
    /\ th_pc["producer"] = "while"
    /\ th_pc' = [th_pc EXCEPT !["producer"] = IF running THEN "call" ELSE "done"]
    /\ UNCHANGED << running, th_packets, started, stop_returned, further_runs, storer >>
    /\ UNCHANGED << beside_threads, ring_vars, delivered, cache_vars, input_list, stats >>

\* CSIBacklog.__run:  self.pool.run()  is called
backlog_run_call ==
    /\ th_pc["producer"] = "call"
    /\ th_pc' = [th_pc EXCEPT !["producer"] = "wait"]
    /\ further_runs' = IF running THEN further_runs ELSE Min(further_runs + 1, 2)
    /\ UNCHANGED << running, th_packets, started, stop_returned, storer >>
    /\ UNCHANGED << beside_threads, ring_vars, delivered, cache_vars, input_list, stats >>

\* the application calls Pool.run(), on its own or in the loop of Pool.calibrate
application_run ==
    /\ th_pc["application"] = "idle"
    /\ th_pc' = [th_pc EXCEPT !["application"] = "wait"]
    /\ UNCHANGED << running, th_packets, started, stop_returned, further_runs, storer >>
    /\ UNCHANGED << beside_threads, ring_vars, delivered, cache_vars, input_list, stats >>

\* Pool.run of thread t up to the call of _handle_packets: under input_cond,
\* wait (until notified or for 0.5 s), copy the queue and clear it
pool_run(t) ==
    /\ th_pc[t] = "wait"
    /\ th_packets' = [th_packets EXCEPT ![t] = Drained(input_list)]
    /\ input_list' = Remaining(input_list)
    /\ stats' = Len(Drained(input_list))
    /\ th_pc' = [th_pc EXCEPT ![t] = "handle"]
    /\ UNCHANGED << running, started, stop_returned, further_runs, storer >>
    /\ UNCHANGED << beside_threads, ring_vars, delivered, cache_vars >>

\* one iteration of the loop of _handle_packets in thread t, with the callback
\* of the backlog as the only registered callback: the callback runs in the
\* thread that called Pool.run.  A failed assertion of the callback ends the
\* loop and Pool.run with an exception, which ends the producer thread, and
\* which ends Pool.calibrate when the application is in its collection loop.
pool_handle_packet(t) ==
    /\ th_pc[t] = "handle"
    /\ th_packets[t] # << >>
    /\ LET pkt == Head(th_packets[t])
           which == SelectCache(Serialized(pkt))
           cluster_cache == IF which = "calib" THEN cluster_cache_calib ELSE cluster_cache_ota
           added == AddToCache(cluster_cache, pkt)
           n == IF which = "ota" /\ JustCompleted(added) THEN ncompleted + 1 ELSE ncompleted
           ranked == IF which = "ota" THEN Ranked(added, n) ELSE added
           d == IF pkt.is_calib
                THEN [cache |-> added, calls |-> << >>, received |-> received, evicted |-> {}]
                ELSE Deliver(callbacks, ranked, received)
           called == d.calls # << >>
           c == Delivered(ranked[Cluster(ranked, d.calls[1].id)])
           fails == called /\ AssertionFails(c)
           after == IF fails THEN ranked ELSE d.cache
       IN  /\ last_pkt' = << pkt >>
           /\ add_count' = [add_count EXCEPT ![pkt.board_num] = @ + 1]
           /\ last_seq' = [last_seq EXCEPT ![pkt.board_num] = pkt.seq]
           /\ gone' = IF fails THEN gone ELSE gone \cup Gone(d.evicted)
           /\ cluster_cache_calib' = IF which = "calib" THEN after ELSE cluster_cache_calib
           /\ cluster_cache_ota' = IF which = "ota" THEN after ELSE cluster_cache_ota
           /\ last_calls' = d.calls
           /\ last_evicted' = IF fails THEN {} ELSE d.evicted
           /\ ncompleted' = n
           /\ received' = d.received
           /\ delivered' = delivered + Len(d.calls)
           /\ IF called
              THEN /\ new_csi_callback_body(c)
                   /\ storer' = IF fails \/ Filtered(c) THEN storer ELSE t
              ELSE UNCHANGED << ring_vars, storer >>
           /\ th_packets' = [th_packets EXCEPT ![t] = IF fails THEN << >> ELSE Tail(@)]
           /\ th_pc' = [th_pc EXCEPT ![t] = IF ~ fails THEN @
                                           ELSE IF t = "producer" THEN "done" ELSE "idle"]
           /\ calibrating' = IF fails /\ t = "application" THEN FALSE ELSE calibrating
           /\ raised' = IF fails /\ t = "application" /\ calibrating
                         THEN "callback" ELSE raised
    /\ UNCHANGED << running, started, stop_returned, further_runs >>
    /\ UNCHANGED << beside_run, input_list, stats >>

\* _handle_packets and Pool.run return in thread t
pool_run_return(t) ==
    /\ th_pc[t] = "handle"
    /\ th_packets[t] = << >>
    /\ th_pc' = [th_pc EXCEPT ![t] = IF t = "producer" THEN "while" ELSE "idle"]
    /\ UNCHANGED << running, th_packets, started, stop_returned, further_runs, storer >>
    /\ UNCHANGED << beside_threads, ring_vars, delivered, cache_vars, input_list, stats >>

\* ------------------------------------------------ Pool.calibrate in steps
\* Pool.calibrate runs in the thread of the application: clear the calibration
\* cache, Pool.set_calib(True) (one Board.set_calib call per board), the
\* collection loop of Pool.run calls, Pool.set_calib(False), the evaluation.
\* The position of the call follows from the statements it has completed.
Step(op, board) == [op |-> op, board |-> board]

\* the call is inside  for board in self.boards: board.set_calib(True)
Enabling == calibrating /\ Len(steps) \in 1 .. boardcount

\* the call is at the test of its collection loop
Collecting == calibrating /\ Len(steps) = 1 + boardcount

\* the call has left the loop and is inside
\* for board in self.boards: board.set_calib(False)
Disabling == calibrating /\ Len(steps) \in (1 + boardcount) .. (2 * boardcount)

\* both loops over the boards are done
Evaluating == calibrating /\ Len(steps) = 1 + 2 * boardcount

\* what the controller answers to a set_calib request
Responses == { "ok", "error" }

\* Pool.calibrate is called: self.cluster_cache_calib.clear()
calibrate_clear ==
    /\ th_pc["application"] = "idle"
    /\ ~ calibrating
    /\ cluster_cache_calib' = << >>
    /\ calibrating' = TRUE
    /\ steps' = << Step("clear", boardcount) >>
    /\ UNCHANGED << backlog_vars, access_vars, cluster_vars, board_vars, call_vars, life_vars >>
    /\ UNCHANGED << boardcount, callbacks, input_list, cluster_cache_ota, stats,
                    stored_calibration, raised, calib_mode, pc, packets, stream, sent,
                    last_pkt, last_calls, last_evicted, ncompleted, received, add_count,
                    last_seq, gone >>

\* one iteration of the loop of Pool.set_calib inside Pool.calibrate:
\* Board.set_calib on the next board.  The controller switches the mode and
\* answers "ok"; with any other answer Board.set_calib raises
\* EspargosUnexpectedResponseError, which nothing in Pool.calibrate catches.
calibrate_set_calib(res) ==
    /\ th_pc["application"] = "idle"
    /\ Enabling \/ Disabling
    /\ LET enable == Len(steps) <= boardcount
           board == IF enable THEN Len(steps) - 1 ELSE Len(steps) - 1 - boardcount
       IN  IF res = "ok"
           THEN /\ calib_mode' = [calib_mode EXCEPT ![board] = enable]
                /\ steps' = Append(steps, Step(IF enable THEN "enable" ELSE "disable", board))
                /\ UNCHANGED << calibrating, raised >>
           ELSE /\ calibrating' = FALSE
                /\ raised' = "control"
                /\ UNCHANGED << calib_mode, steps >>
    /\ UNCHANGED << backlog_vars, access_vars, cluster_vars, board_vars, call_vars, life_vars >>
    /\ UNCHANGED << boardcount, callbacks, input_list, cluster_cache_ota,
                    cluster_cache_calib, stats, stored_calibration, pc, packets, stream,
                    sent, last_pkt, last_calls, last_evicted, ncompleted, received,
                    add_count, last_seq, gone >>

\* the collection loop of Pool.calibrate:
\*     while (time.time() - start < duration) and (...): self.run()
calibrate_run == Collecting /\ application_run

\* Pool.calibrate after Pool.set_calib(False): the evaluation of the cache, which
\* raises or stores a new calibration
calibrate_evaluate(per_board) ==
    /\ th_pc["application"] = "idle"
    /\ Evaluating
    /\ LET r == Evaluation(cluster_cache_calib, per_board)
       IN  /\ raised' = r.raised
           /\ stored_calibration' = Assigned(r, stored_calibration)
    /\ calibrating' = FALSE
    /\ steps' = Append(steps, Step("evaluate", boardcount))
    /\ UNCHANGED << backlog_vars, access_vars, cluster_vars, board_vars, call_vars, life_vars >>
    /\ UNCHANGED << boardcount, callbacks, input_list, cluster_cache_ota,
                    cluster_cache_calib, stats, calib_mode, pc, packets, stream, sent,
                    last_pkt, last_calls, last_evicted, ncompleted, received, add_count,
                    last_seq, gone >>

\* ------------------------------------------------ the sample conversions
\* csi.csi_buf_t: its packed fields in order, with their sizes in bytes
csi_buf_fields ==
    << << "lltf_guard_below", 6 * 2 >>,
       << "lltf", 53 * 2 >>,
       << "lltf_guard_above", 7 * 2 >>,
       << "htltf_higher", 57 * 2 >>,
       << "htltf_guard", 11 * 2 >>,
       << "htltf_lower", 57 * 2 >> >>

\* the bytes of the first n fields
RECURSIVE SizeUpTo(_)
SizeUpTo(n) == IF n = 0 THEN 0 ELSE SizeUpTo(n - 1) + csi_buf_fields[n][2]

\* csi.csi_buf_t.<name>: .offset and .size of a field
csi_buf_t(name) ==
    LET i == CHOOSE j \in DOMAIN csi_buf_fields : csi_buf_fields[j][1] = name
    IN  [offset |-> SizeUpTo(i - 1), size |-> csi_buf_fields[i][2]]

\* ctypes.sizeof(csi.csi_buf_t)
sizeof_csi_buf_t == SizeUpTo(Len(csi_buf_fields))

\* a complex number is << real part, imaginary part >>; the int8 samples make
\* every product below exact in float32
Conj(z) == << z[1], 0 - z[2] >>

Times(z, w) == << z[1] * w[1] - z[2] * w[2], z[1] * w[2] + z[2] * w[1] >>

\* -1.0j, and np.exp(-1.0j * np.pi / 2) up to rounding
MinusJ == << 0, 0 - 1 >>

\* a[from:to] of a sequence (0-based, to excluded)
Slice(a, from, to) == [i \in 1 .. (to - from) |-> a[from + i]]

\* csi_bufs_int8.astype(np.float32).view(np.complex64) of one buffer: the pair
\* of bytes 2k, 2k+1 is read as real and imaginary part
view_complex64(buf) == [k \in 1 .. (Len(buf) \div 2) |-> << buf[2 * k - 1], buf[2 * k] >>]

\* Pool._handle_packets: csi_bufs_complex of one buffer
csi_bufs_complex(buf) ==
    LET viewed == view_complex64(buf)
    IN  [k \in DOMAIN viewed |-> Times(MinusJ, Conj(viewed[k]))]

\* the views ClusteredCSI.__init__ builds on complex_csi_all, for one antenna
complex_csi_part(csi_cplx, name) ==
    Slice(csi_cplx, csi_buf_t(name).offset \div 2,
          (csi_buf_t(name).offset + csi_buf_t(name).size) \div 2)

\* the last axis of the tensor deserialize_csi_ht40 allocates
ht40_width ==
    (csi_buf_t("htltf_lower").size + HT40_GAP_SUBCARRIERS * 2 + csi_buf_t("htltf_higher").size) \div 2

\* the last axis of CSIBacklog.storage_ht40
storage_ht40_width ==
    (csi_buf_t("htltf_lower").size + HT40_GAP_SUBCARRIERS * 2 + csi_buf_t("htltf_higher").size) \div 2

\* the same with the two halves next to each other
deserialize_csi_ht40_nogap(c) ==
    [s \in DOMAIN c.complex_csi_all |->
        complex_csi_part(c.complex_csi_all[s], "htltf_lower")
            \o complex_csi_part(c.complex_csi_all[s], "htltf_higher")]

\* ClusteredCSI.deserialize_csi_ht40 past its assertions.  csi_higher and
\* csi_lower are views of csi_ht40 that the first two assignments write
\* through; the multiplication makes a new array and binds the local name to
\* it, and csi_ht40 is returned as it was.
deserialize_csi_ht40(c) ==
    LET loc == get_secondary_channel_relative(c)
        n_higher == csi_buf_t("htltf_lower").size \div 2
        n_lower == csi_buf_t("htltf_higher").size \div 2
        csi_ht40 ==
            [s \in DOMAIN c.complex_csi_all |->
                [k \in 1 .. ht40_width |->
                    IF k <= n_higher
                    THEN complex_csi_part(c.complex_csi_all[s], "htltf_lower")[k]
                    ELSE IF k > ht40_width - n_lower
                    THEN complex_csi_part(c.complex_csi_all[s], "htltf_higher")[k - (ht40_width - n_lower)]
                    ELSE << 0, 0 >>]]
        csi_higher ==
            [s \in DOMAIN csi_ht40 |->
                [k \in 1 .. n_higher |->
                    IF loc = 1 THEN Times(csi_ht40[s][k], MinusJ) ELSE csi_ht40[s][k]]]
        csi_lower ==
            [s \in DOMAIN csi_ht40 |->
                [k \in 1 .. n_lower |->
                    IF loc # 1 THEN Times(csi_ht40[s][ht40_width - n_lower + k], MinusJ)
                    ELSE csi_ht40[s][ht40_width - n_lower + k]]]
    IN  csi_ht40

\* ---- the inputs of the conversions
Int8(v) == ((v + 128) % 256) - 128

Int8Seeds == { 0 - 128, 0 - 1, 0, 127 }

\* the antennas of one board, as (board, row, column)
Antennas == { << 0, Row(esp_num), Column(esp_num) >> : esp_num \in 0 .. ANTENNAS_PER_BOARD - 1 }

\* serialized_csi.buf of the antenna with number esp_num: int8 bytes that
\* differ from sample to sample by the stride and from antenna to antenna
Buffer(first, second, stride, esp_num) ==
    [i \in 1 .. sizeof_csi_buf_t |->
        IF i % 2 = 1
        THEN Int8(first + stride * (i \div 2) + esp_num)
        ELSE Int8(second - stride * (i \div 2) - esp_num)]

EspNum(s) == CHOOSE esp_num \in 0 .. ANTENNAS_PER_BOARD - 1 : s = << 0, Row(esp_num), Column(esp_num) >>

\* the buffers of a complete cluster whose packets all carry cwb and
\* secondary_channel
InitSamples ==
    /\ \E first \in Int8Seeds, second \in Int8Seeds, stride \in 0 .. MaxStride,
          cwb \in 0 .. 1, secondary_channel \in 0 .. 2 :
          arg = << [s \in Antennas |->
                      [buf |-> Buffer(first, second, stride, EspNum(s)),
                       cwb |-> cwb, secondary_channel |-> secondary_channel]] >>
    /\ result = << >>

\* the cluster the pool built from the buffers
Decoded == [serialized_csi_all |-> arg[1], complex_csi_all |-> result[1]]

\* Pool._handle_packets decodes the buffers; add_csi stores them in the cluster
handle_packets_decode ==
    /\ arg # << >>
    /\ result = << >>
    /\ result' = << [s \in Antennas |-> csi_bufs_complex(arg[1][s].buf)] >>
    /\ UNCHANGED arg
    /\ UNCHANGED beside_call

\* ClusteredCSI.deserialize_csi_ht40 on that cluster: the result becomes
\* << the decoded samples, what was raised, the tensor returned >>
call_deserialize_csi_ht40 ==
    /\ Len(result) = 1
    /\ result' = IF deserialize_csi_ht40_asserts(Decoded)
                 THEN << result[1], "none", deserialize_csi_ht40(Decoded) >>
                 ELSE << result[1], "AssertionError", << >> >>
    /\ UNCHANGED arg
    /\ UNCHANGED beside_call

\* ------------------------------------------------ the sensor timestamps
\* csi.wifi_pkt_rx_ctrl_t: rxstart_time_cyc is a field of 7 bits,
\* rxstart_time_cyc_dec a field of 11 bits
RXSTART_TIME_CYC_BITS == 7
RXSTART_TIME_CYC_DEC_BITS == 11
\* HW_TIMESTAMP_LAG_NS = 20800
HW_TIMESTAMP_LAG_NS == 20800

\* Times are kept in sixteenths of a nanosecond, in which every term of the
\* sum is a whole number (the double sum of the code is exact: every term is
\* a multiple of 1/16 ns below 2^53/16 ns):
\*   one microsecond of the latched timestamp
MICROSECOND == 16000
\*   one nanosecond
NANOSECOND == 16
\*   CYC_PERIOD_NS = 1/80e6*1e9 = 12.5
CYC_PERIOD_NS == 200
\*   CYC_DEC_PERIOD_NS = 1/640e6*1e9 = 1.5625
CYC_DEC_PERIOD_NS == 25

RECURSIVE Pow2(_)
Pow2(n) == IF n = 0 THEN 1 ELSE 2 * Pow2(n - 1)

\* the timestamp fields of a serialized_csi_t record: timestamp and
\* global_timestamp_us of the record, rxstart_time_cyc and
\* rxstart_time_cyc_dec of its rx_ctrl
TimedRecord(timestamp, global_timestamp_us, rxstart_time_cyc, rxstart_time_cyc_dec) ==
    [ timestamp |-> timestamp,
      global_timestamp_us |-> global_timestamp_us,
      rxstart_time_cyc |-> rxstart_time_cyc,
      rxstart_time_cyc_dec |-> rxstart_time_cyc_dec ]

\* rxstart_time_cyc_dec = 2048 - rxstart_time_cyc_dec
\*     if rxstart_time_cyc_dec >= 1024 else rxstart_time_cyc_dec
FoldedCycDec(rxstart_time_cyc_dec) ==
    IF rxstart_time_cyc_dec >= Pow2(RXSTART_TIME_CYC_DEC_BITS - 1)
    THEN Pow2(RXSTART_TIME_CYC_DEC_BITS) - rxstart_time_cyc_dec
    ELSE rxstart_time_cyc_dec

\* _nanosecond_timestamp as it would be if it always took the legacy timestamp
nanosecond_timestamp_legacy(serialized_csi) ==
    LET hw_latched_timestamp_ns == serialized_csi.timestamp * MICROSECOND
    IN  hw_latched_timestamp_ns - HW_TIMESTAMP_LAG_NS * NANOSECOND
            + serialized_csi.rxstart_time_cyc * CYC_PERIOD_NS
            + FoldedCycDec(serialized_csi.rxstart_time_cyc_dec) * CYC_DEC_PERIOD_NS

\* ClusteredCSI._nanosecond_timestamp
nanosecond_timestamp(serialized_csi) ==
    LET us_timestamp == IF serialized_csi.global_timestamp_us # 0
                        THEN serialized_csi.global_timestamp_us
                        ELSE serialized_csi.timestamp
        hw_latched_timestamp_ns == us_timestamp * MICROSECOND
    IN  hw_latched_timestamp_ns - HW_TIMESTAMP_LAG_NS * NANOSECOND
            + serialized_csi.rxstart_time_cyc * CYC_PERIOD_NS
            + FoldedCycDec(serialized_csi.rxstart_time_cyc_dec) * CYC_DEC_PERIOD_NS

\* ClusteredCSI.get_sensor_timestamps with the value of every slot:
\* np.full(self.shape, np.nan) in which _foreach_complete_sensor has replaced
\* the entry of every slot whose record is not None.  An entry is NaN or
\* << the time >>; the division by 1e9 that turns it into seconds is left out.
sensor_timestamps(c) ==
    [ s \in Slots(c.boardcount) |->
        IF s \in DOMAIN c.serialized_csi_all
        THEN << nanosecond_timestamp(c.serialized_csi_all[s]) >>
        ELSE NaN ]

\* ---- the inputs of get_sensor_timestamps
\* the largest value of the two microsecond counters
MaxMicroseconds == 2

\* the values of rxstart_time_cyc: the ends of its range
CycValues == { 0, Pow2(RXSTART_TIME_CYC_BITS) - 1 }

\* a cluster of one board in which the first n sensors have reported; the
\* records differ in rxstart_time_cyc_dec from sensor to sensor
InitTimed ==
    /\ \E timestamp \in 0 .. MaxMicroseconds, global_timestamp_us \in 0 .. MaxMicroseconds,
          rxstart_time_cyc \in CycValues,
          rxstart_time_cyc_dec \in 0 .. Pow2(RXSTART_TIME_CYC_DEC_BITS) - 1,
          n \in { 0, 1, ANTENNAS_PER_BOARD } :
          arg = << [ s \in { t \in Antennas : EspNum(t) < n } |->
                        TimedRecord(timestamp, global_timestamp_us, rxstart_time_cyc,
                            (rxstart_time_cyc_dec + EspNum(s))
                                % Pow2(RXSTART_TIME_CYC_DEC_BITS)) ] >>
    /\ result = << >>

\* the cluster that holds the records
Timed == [boardcount |-> 1, serialized_csi_all |-> arg[1]]

\* cluster.get_sensor_timestamps() is called
call_get_sensor_timestamps ==
    /\ arg # << >>
    /\ result = << >>
    /\ result' = << sensor_timestamps(Timed) >>
    /\ UNCHANGED arg
    /\ UNCHANGED beside_call

\* ---------------------------------------------------------------- specification
\* the state after Pool.__init__ for the boards of scenario sc
PoolBuilt(sc, cbs) ==
    /\ boardcount = Cardinality(DOMAIN sc)
    /\ stream = sc
    /\ callbacks = cbs
    /\ input_list = << >>
    /\ cluster_cache_ota = << >>
    /\ cluster_cache_calib = << >>
    /\ stats = 0
    /\ stored_calibration = << >>
    /\ raised = "none"
    /\ calibrating = FALSE
    /\ calib_mode = [b \in DOMAIN sc |-> FALSE]
    /\ pc = "wait"
    /\ packets = << >>
    /\ sent = [b \in DOMAIN sc |-> 0]
    /\ last_pkt = << >>
    /\ last_calls = << >>
    /\ last_evicted = {}
    /\ ncompleted = 0
    /\ received = [i \in 1 .. MaxCallbacks |-> 0]
    /\ add_count = [b \in DOMAIN sc |-> 0]
    /\ last_seq = [b \in DOMAIN sc |-> 0]
    /\ gone = {}

Built(sc, cbs) == PoolBuilt(sc, cbs) /\ NoBacklog

Constructed(sc, cbs) == Built(sc, cbs) /\ NoCall /\ NoThreads

\* Pool(boards): no callback is registered yet
InitPool(sc) == Constructed(sc, << >>)

Init == \E sc \in Traffic : InitPool(sc)

Next ==
    \/ \E b \in Boards : csistream_handle_message(b)
    \/ \E p \in Predicates : add_csi_callback(p)
    \/ run
    \/ handle_packet
    \/ run_return
    \/ Tick

Spec == Init /\ [][Next]_vars

\* a pool that also receives phase-reference fragments and is calibrated
InitCalib == \E sc \in CalibTraffic : InitPool(sc)

NextCalib ==
    \/ Next
    \/ \E per_board \in BOOLEAN : calibrate_end(per_board)
    \/ calibrate_begin

SpecCalib == InitCalib /\ [][NextCalib]_vars

\* two boards whose controllers stream phase-reference frames: the same HT40
\* frame on both boards; a frame on the first board and the start of a frame
\* on another channel on the second; an HT20 frame of which the second board
\* reports only the start
Referenced ==
    { [b \in 0 .. 1 |-> Burst(1, TRUE, 0, ANTENNAS_PER_BOARD)],
      [b \in 0 .. 1 |->
          IF b = 0 THEN Burst(1, TRUE, 0, ANTENNAS_PER_BOARD)
          ELSE Tuned(Burst(2, TRUE, 0, MaxCalib), 6, 1)],
      [b \in 0 .. 1 |->
          Tuned(Burst(1, TRUE, 0, IF b = 0 THEN ANTENNAS_PER_BOARD ELSE MaxCalib), 1, 0)] }

\* a pool of two boards that is calibrated, per board or as a whole, again and
\* again while the reference frames arrive
InitCalibrate == \E sc \in Referenced : InitPool(sc)

NextCalibrate ==
    \/ \E b \in Boards : csistream_handle_message(b)
    \/ run
    \/ handle_packet
    \/ run_return
    \/ calibrate_begin
    \/ \E per_board \in BOOLEAN : calibrate_end(per_board)

SpecCalibrate == InitCalibrate /\ [][NextCalibrate]_vars

\* a pool of two boards
InitBoards == InitPool(TwoBoards)

SpecBoards == InitBoards /\ [][Next]_vars

\* a board that sends half of the fragments of one frame and then falls silent
HalfFrame == Burst(1, FALSE, 0, ANTENNAS_PER_BOARD \div 2)

\* a pool with one callback registered with the predicate age > PredAge, run() being
\* called again and again while time passes
InitHalf == Constructed([b \in 0 .. 0 |-> HalfFrame], << CSICallback("age") >>)

NextHalf ==
    \/ \E b \in Boards : csistream_handle_message(b)
    \/ run
    \/ handle_packet
    \/ run_return
    \/ Tick

SpecHalf ==
    /\ InitHalf
    /\ [][NextHalf]_vars
    /\ WF_vars(run)
    /\ WF_vars(handle_packet)
    /\ WF_vars(run_return)
    /\ WF_vars(Tick)

\* a pool of one silent board, after calibrate() has stored a calibration or
\* without one, with a backlog constructed on it
InitRing ==
    /\ \E n \in 1 .. MaxSize, lltf \in BOOLEAN, ht40 \in BOOLEAN, cal \in BOOLEAN :
          InitBacklog(n, lltf, ht40, cal)
    /\ \E cal \in { << >>, << [per_board |-> TRUE, clusters |-> [b \in 0 .. 0 |-> 1]] >> } :
          stored_calibration = cal
    /\ raised = "none"
    /\ NoCall
    /\ NoThreads
    /\ boardcount = 1
    /\ stream = [b \in 0 .. 0 |-> << >>]
    /\ callbacks = << CSICallback("none") >>
    /\ input_list = << >>
    /\ cluster_cache_ota = << >>
    /\ cluster_cache_calib = << >>
    /\ stats = 0
    /\ calibrating = FALSE
    /\ calib_mode = [b \in 0 .. 0 |-> FALSE]
    /\ pc = "wait"
    /\ packets = << >>
    /\ sent = [b \in 0 .. 0 |-> 0]
    /\ last_pkt = << >>
    /\ last_calls = << >>
    /\ last_evicted = {}
    /\ ncompleted = 0
    /\ received = [i \in 1 .. MaxCallbacks |-> 0]
    /\ add_count = [b \in 0 .. 0 |-> 0]
    /\ last_seq = [b \in 0 .. 0 |-> 0]
    /\ gone = {}

NextRing ==
    \/ \E c \in Deliverable(delivered + 1) : new_csi_callback(c)
    \/ \E f \in Filters : set_mac_filter(f)
    \/ add_update_callback

SpecRing == InitRing /\ [][NextRing]_vars

\* a backlog that stores both kinds of CSI without calibration, filled by the
\* backlog thread while the main thread reads it once
InitAccess ==
    /\ InitRing
    /\ enable_lltf /\ enable_ht40 /\ ~ calibrate
    /\ stored_calibration = << >>

NextAccess ==
    \/ \E c \in Deliverable(delivered + 1) : insert_begin(c)
    \/ insert_step
    \/ \E a \in Accessors : read_begin(a)
    \/ read_head
    \/ read_roll
    \/ read_slice

SpecAccess == InitAccess /\ [][NextAccess]_vars

\* ClusteredCSI(source_mac, dest_mac, seq_ctrl, boardcount = 1) for frame 1, and
\* the add_csi calls made on it
InitCluster ==
    /\ cluster = ClusteredCSI(1, 1)
    /\ adds = 0
    /\ NoReader
    /\ boardcount = 1
    /\ stream = [b \in 0 .. 0 |-> << >>]
    /\ callbacks = << >>
    /\ input_list = << >>
    /\ cluster_cache_ota = << >>
    /\ cluster_cache_calib = << >>
    /\ stats = 0
    /\ stored_calibration = << >>
    /\ raised = "none"
    /\ NoCall
    /\ NoThreads
    /\ calibrating = FALSE
    /\ calib_mode = [b \in 0 .. 0 |-> FALSE]
    /\ pc = "wait"
    /\ packets = << >>
    /\ sent = [b \in 0 .. 0 |-> 0]
    /\ last_pkt = << >>
    /\ last_calls = << >>
    /\ last_evicted = {}
    /\ ncompleted = 0
    /\ received = [i \in 1 .. MaxCallbacks |-> 0]
    /\ add_count = [b \in 0 .. 0 |-> 0]
    /\ last_seq = [b \in 0 .. 0 |-> 0]
    /\ gone = {}
    /\ NoAccess
    /\ size = 0
    /\ enable_lltf = TRUE
    /\ enable_ht40 = TRUE
    /\ calibrate = TRUE
    /\ storage_ht40 = << >>
    /\ storage_lltf = << >>
    /\ storage_timestamps = << >>
    /\ storage_rssi = << >>
    /\ storage_macs = << >>
    /\ head = 0
    /\ latest = None
    /\ filllevel = 0
    /\ mac_filter = << >>
    /\ update_callbacks = 0
    /\ delivered = 0
    /\ stored = << >>
    /\ notified = 0
    /\ update_calls = << >>

NextCluster ==
    \E esp_num \in 0 .. ANTENNAS_PER_BOARD - 1, key \in 1 .. 2, p \in 1 .. MaxPayload :
        cluster_add(0, esp_num, Record(key, p))

SpecCluster == InitCluster /\ [][NextCluster]_vars

\* the same object, with stream packets of frame 1 and of frame 2 that carry
\* any esp_num up to MaxEspNum; the payload of a record tells the sensor
NextSlots ==
    \E esp_num \in 0 .. MaxEspNum, key \in 1 .. 2 :
        cluster_add(0, esp_num, Record(key, esp_num))

SpecSlots == InitCluster /\ [][NextSlots]_vars

\* the second board of a pool of two, while the application registers a consumer
\* of its own, runs the board and stops it; the threads are scheduled fairly
InitReader ==
    /\ boardcount = 2
    /\ \E board_num \in 0 .. 1 : InitBoard(board_num)
    /\ stream = [b \in 0 .. 1 |-> << >>]
    /\ callbacks = << >>
    /\ input_list = << >>
    /\ cluster_cache_ota = << >>
    /\ cluster_cache_calib = << >>
    /\ stats = 0
    /\ stored_calibration = << >>
    /\ raised = "none"
    /\ NoCall
    /\ NoThreads
    /\ calibrating = FALSE
    /\ calib_mode = [b \in 0 .. 1 |-> FALSE]
    /\ pc = "wait"
    /\ packets = << >>
    /\ sent = [b \in 0 .. 1 |-> 0]
    /\ last_pkt = << >>
    /\ last_calls = << >>
    /\ last_evicted = {}
    /\ ncompleted = 0
    /\ received = [i \in 1 .. MaxCallbacks |-> 0]
    /\ add_count = [b \in 0 .. 1 |-> 0]
    /\ last_seq = [b \in 0 .. 1 |-> 0]
    /\ gone = {}
    /\ NoAccess
    /\ cluster = ClusteredCSI(0, 0)
    /\ adds = 0
    /\ size = 0
    /\ enable_lltf = TRUE
    /\ enable_ht40 = TRUE
    /\ calibrate = TRUE
    /\ storage_ht40 = << >>
    /\ storage_lltf = << >>
    /\ storage_timestamps = << >>
    /\ storage_rssi = << >>
    /\ storage_macs = << >>
    /\ head = 0
    /\ latest = None
    /\ filllevel = 0
    /\ mac_filter = << >>
    /\ update_callbacks = 0
    /\ delivered = 0
    /\ stored = << >>
    /\ notified = 0
    /\ update_calls = << >>

NextReader ==
    \/ board_start
    \/ t_step
    \/ stop_begin
    \/ stop_set
    \/ stop_join
    \/ add_consumer(MaxConsumers)
    \/ \E k \in Consumers : consumer_take(k)

SpecReader ==
    /\ InitReader
    /\ [][NextReader]_vars
    /\ WF_vars(t_step)
    /\ WF_vars(stop_set)
    /\ WF_vars(stop_join)
    /\ \A k \in Consumers : WF_vars(consumer_take(k))

\* ---- the sample conversions of the cluster of one packet, on their own
InitConversions == Built([b \in 0 .. 0 |-> << >>], << >>) /\ InitSamples /\ NoThreads

NextConversions ==
    \/ handle_packets_decode
    \/ call_deserialize_csi_ht40

SpecConversions == InitConversions /\ [][NextConversions]_vars

\* ---- get_sensor_timestamps of one cluster, on its own
InitTimestamps == Built([b \in 0 .. 0 |-> << >>], << >>) /\ InitTimed /\ NoThreads

NextTimestamps == call_get_sensor_timestamps

SpecTimestamps == InitTimestamps /\ [][NextTimestamps]_vars

\* ---- a backlog, its producer thread and the application thread, beside a
\* board that streams one frame
Frames == [b \in 0 .. 0 |-> Burst(1, FALSE, 0, ANTENNAS_PER_BOARD)]

InitThreads ==
    /\ PoolBuilt(Frames, << CSICallback("none") >>)
    /\ \E cal \in BOOLEAN : InitBacklog(MaxSize, TRUE, TRUE, cal)
    /\ NoCall
    /\ running = TRUE
    /\ th_pc = [t \in Threads |-> IF t = "producer" THEN "none" ELSE "idle"]
    /\ th_packets = [t \in Threads |-> << >>]
    /\ started = FALSE
    /\ stop_returned = FALSE
    /\ further_runs = 0
    /\ storer = "none"
    /\ steps = << >>

ProducerNext ==
    \/ backlog_run_while
    \/ backlog_run_call
    \/ pool_run("producer")
    \/ pool_handle_packet("producer")
    \/ pool_run_return("producer")

NextThreads ==
    \/ \E b \in Boards : csistream_handle_message(b)
    \/ backlog_start
    \/ backlog_stop_set
    \/ backlog_stop_join
    \/ application_run
    \/ pool_run("application")
    \/ pool_handle_packet("application")
    \/ pool_run_return("application")
    \/ th_pc["application"] = "idle" /\ calibrate_begin
    \/ th_pc["application"] = "idle" /\ \E per_board \in BOOLEAN : calibrate_end(per_board)
    \/ ProducerNext

\* the steps pool_handle_packet("producer") takes, told by what they do to the
\* position and the local packets of the thread; no other step of NextThreads
\* is one of them, and they are enabled exactly when pool_handle_packet is
producer_handles ==
    /\ th_pc["producer"] = "handle"
    /\ th_packets["producer"] # << >>
    /\ \/ /\ th_packets' = [th_packets EXCEPT !["producer"] = Tail(@)]
          /\ th_pc' = th_pc
       \/ /\ th_packets' = [th_packets EXCEPT !["producer"] = << >>]
          /\ th_pc' = [th_pc EXCEPT !["producer"] = "done"]

\* the producer thread is scheduled again and again, Pool.run waits for at
\* most 0.5 s, and join() returns once the thread has terminated
SpecThreads ==
    /\ InitThreads
    /\ [][NextThreads]_vars
    /\ WF_vars(backlog_run_while)
    /\ WF_vars(backlog_run_call)
    /\ WF_vars(pool_run("producer"))
    /\ WF_<< th_pc, th_packets >>(producer_handles)
    /\ WF_vars(pool_run_return("producer"))
    /\ WF_vars(backlog_stop_join)

\* ---- an application that calls Pool.run() in its own loop, with a backlog
\* that may have been constructed with calibrate = True before any calibration
\* is stored; the board streams frame 1 and the first fragments of frame 2
Batches == [b \in 0 .. 0 |-> Overtaking(0, 0)]

InitBatch ==
    /\ PoolBuilt(Batches, << CSICallback("none") >>)
    /\ \E cal \in BOOLEAN : InitBacklog(MaxSize, TRUE, TRUE, cal)
    /\ NoCall
    /\ NoThreads

NextBatch ==
    \/ \E b \in Boards : csistream_handle_message(b)
    \/ application_run
    \/ pool_run("application")
    \/ pool_handle_packet("application")
    \/ pool_run_return("application")

SpecBatch == InitBatch /\ [][NextBatch]_vars

\* ---- an application that calls Pool.calibrate() once on a pool of two boards, with
\* a backlog registered with the predicate age > PredAge that may have been
\* constructed with calibrate = True; each board streams a phase-reference
\* frame, and the first board the first fragments of an over-the-air frame
Calibrated ==
    [b \in 0 .. 1 |->
        IF b = 0
        THEN Burst(1, TRUE, 0, ANTENNAS_PER_BOARD) \o Burst(2, FALSE, 0, MaxLead + 1)
        ELSE Burst(1, TRUE, 0, ANTENNAS_PER_BOARD)]

InitControl ==
    /\ PoolBuilt(Calibrated, << CSICallback("age") >>)
    /\ \E cal \in BOOLEAN : InitBacklog(MaxSize, TRUE, TRUE, cal)
    /\ NoCall
    /\ NoThreads

NextControl ==
    \/ \E b \in Boards : csistream_handle_message(b)
    \/ steps = << >> /\ calibrate_clear
    \/ \E res \in Responses : calibrate_set_calib(res)
    \/ calibrate_run
    \/ pool_run("application")
    \/ pool_handle_packet("application")
    \/ pool_run_return("application")
    \/ \E per_board \in BOOLEAN : calibrate_evaluate(per_board)
    \/ Tick

SpecControl == InitControl /\ [][NextControl]_vars

\* ================================================================ claims
Calls == { last_calls[i] : i \in DOMAIN last_calls }

Registered == 1 .. Len(callbacks)

\* C1: each registered callback is invoked at most once for any given cluster:
\* every invocation made for the last packet is the first one of that callback
\* with that cluster, and no cached cluster has seen one callback twice.
C1_AtMostOncePerCluster ==
    /\ \A c \in Calls : c.nth = 1
    /\ \A k \in DOMAIN cluster_cache_ota :
          \A i \in Registered : cluster_cache_ota[k].called[i] <= 1

\* C2: a callback registered without a predicate is only invoked with a cluster
\* whose completion mask has every slot set, and an incomplete cluster is only
\* delivered to a callback that has a predicate which is true of the cluster.
C2_IncompleteOnlyByPredicate ==
    \A c \in Calls :
        /\ callbacks[c.cb].cb_predicate = "none" => c.completion = Slots(boardcount)
        /\ c.completion # Slots(boardcount) =>
              /\ callbacks[c.cb].cb_predicate # "none"
              /\ cb_predicate(callbacks[c.cb].cb_predicate, c.completion, c.age)

\* C2 witness: one pass delivered an incomplete cluster to a predicate callback
\* and a complete cluster to a callback without predicate.
C2_Witness ==
    \E c, d \in Calls :
        /\ callbacks[c.cb].cb_predicate = "none" /\ c.complete
        /\ callbacks[d.cb].cb_predicate # "none" /\ ~ d.complete

\* an evicted cluster was handed to every registered callback or is too old
Justified(e) ==
    \/ \A i \in 1 .. e.registered : e.called[i] >= 1
    \/ e.age > ota_cache_timeout

Ids(cache) == { cache[k].id : k \in DOMAIN cache }

\* C3: a cluster leaves the over-the-air cache only in a pass of _handle_packets
\* that deletes it, and a pass deletes it only if every registered callback has
\* been invoked with it or its age exceeds ota_cache_timeout.
C3_EvictedOnlyWhenFiredOrAged ==
    /\ [](\A e \in last_evicted : Justified(e))
    /\ [][ \A id \in Ids(cluster_cache_ota) \ Ids(cluster_cache_ota') :
              \E e \in last_evicted' : e.id = id ]_vars

\* C3 witness: a pass has evicted a young cluster that both callbacks had fired
\* for, and kept a young cluster that only the first callback has fired for.
C3_Witness ==
    /\ Len(callbacks) = 2
    /\ \E e \in last_evicted :
          /\ e.age <= ota_cache_timeout
          /\ e.registered = 2
          /\ \A i \in 1 .. e.registered : e.called[i] >= 1
    /\ \E k \in DOMAIN cluster_cache_ota :
          /\ cluster_cache_ota[k].called[1] >= 1
          /\ cluster_cache_ota[k].called[2] = 0
          /\ cluster_cache_ota[k].age <= ota_cache_timeout

CalibFragments(cache) ==
    { << cache[k].id, s >> : k \in DOMAIN cache, s \in Slots(boardcount) } \cap
    { x \in Ids(cache) \X Slots(boardcount) :
        \E k \in DOMAIN cache :
            /\ cache[k].id = x[1]
            /\ x[2] \in DOMAIN cache[k].serialized_csi_all
            /\ cache[k].serialized_csi_all[x[2]].is_calib }

Fragments(cache) ==
    { x \in Ids(cache) \X Slots(boardcount) :
        \E k \in DOMAIN cache :
            cache[k].id = x[1] /\ x[2] \in DOMAIN cache[k].serialized_csi_all }

\* C4: no callback is invoked with a cluster that holds a calibration fragment;
\* calibration fragments are only in the calibration cache and over-the-air
\* fragments only in the over-the-air cache; processing a calibration packet
\* invokes no callback; and a fragment leaves the calibration cache only when
\* calibrate() clears it.
C4_CalibrationNeverDelivered ==
    /\ [](/\ \A c \in Calls : ~ c.calib
          /\ CalibFragments(cluster_cache_ota) = {}
          /\ CalibFragments(cluster_cache_calib) = Fragments(cluster_cache_calib)
          /\ (last_pkt # << >> /\ last_pkt[1].is_calib => last_calls = << >>))
    /\ [][ Fragments(cluster_cache_calib) \ Fragments(cluster_cache_calib') # {}
              => ~ calibrating /\ calibrating' ]_vars

\* C4 witness: the calibration cache holds a fragment of key 1 while a callback
\* has just been invoked with the over-the-air cluster of the same key.
C4_Witness ==
    /\ 1 \in Ids(cluster_cache_calib)
    /\ \E c \in Calls : c.id = 1
    /\ last_pkt # << >> /\ ~ last_pkt[1].is_calib

\* the stream positions of the items of board b in a sequence of queue items
PositionsOf(q, b) ==
    LET own == SelectSeq(q, LAMBDA p : p.board_num = b)
    IN  [i \in DOMAIN own |-> own[i].seq]

\* C5: every item a reader appended has been passed to add_csi exactly once, or
\* is still pending exactly once (in the local list of run() or in the queue), and
\* the items of one board are processed in the order in which they were appended.
C5_ExactlyOnceInOrder ==
    \A b \in Boards :
        /\ last_seq[b] = add_count[b]
        /\ PositionsOf(packets \o input_list, b)
              = [i \in 1 .. (sent[b] - add_count[b]) |-> add_count[b] + i]

\* C5 witness: every item of both boards has been processed, after a drain that
\* took items of both boards out of the queue at once.
C5_Witness ==
    /\ boardcount = 2
    /\ \A b \in Boards : stream[b] = << >> /\ add_count[b] = sent[b] /\ sent[b] >= 2
    /\ stats = 2
    /\ last_pkt # << >> /\ last_pkt[1].seq = sent[last_pkt[1].board_num]

\* C6: within one cluster the callbacks are invoked in registration order, and a
\* callback without predicate receives the clusters in the order in which they
\* became complete.
C6_RegistrationAndCompletionOrder ==
    \A c \in Calls :
        /\ \A j \in 1 .. (c.cb - 1) : j \in c.prior
        /\ (callbacks[c.cb].cb_predicate = "none" /\ c.nth = 1) => c.rank > c.before

\* the scenario: the board is silent, nothing is queued, and the only cluster of
\* the cache holds half of its fragments and has not been delivered
HalfCluster ==
    /\ stream[0] = << >> /\ input_list = << >> /\ packets = << >>
    /\ Len(cluster_cache_ota) = 1
    /\ Cardinality(cluster_cache_ota[1].csi_completion_state) = ANTENNAS_PER_BOARD \div 2
    /\ cluster_cache_ota[1].called[1] = 0

\* the callback has been invoked once, for the first time, and the cache is empty
FiredOnceAndGone ==
    /\ cluster_cache_ota = << >>
    /\ Len(last_calls) = 1
    /\ last_calls[1].nth = 1

\* C7: with one callback registered with the predicate age > PredAge and a single
\* over-the-air cluster that holds four of its eight fragments and receives no
\* further packet, repeated run() calls eventually invoke the callback exactly
\* once for the cluster and then remove the cluster from the cache.
C7_HalfClusterFiresAndLeaves == [](HalfCluster => <>FiredOnceAndGone)

\* the clusters a reader is to return: the min(M, N) most recently stored ones
Newest ==
    SubSeq(stored, Len(stored) - Min(Len(stored), size) + 1, Len(stored))

\* the 12 hexadecimal digits of six bytes
Hex(bytes) ==
    [i \in 1 .. (2 * Len(bytes)) |->
        IF i % 2 = 1 THEN bytes[(i + 1) \div 2] \div 16 ELSE bytes[i \div 2] % 16]

\* C8: after M clusters have been stored in a backlog of capacity N, every read
\* accessor returns exactly min(M, N) rows, and they are the records of the
\* min(M, N) most recently stored clusters, oldest first; an empty backlog
\* returns no row.
C8_ReadersReturnNewestInOrder ==
    /\ Len(get_rssi) = Len(Newest)
    /\ Len(get_timestamps) = Len(Newest)
    /\ Len(get_macs) = Len(Newest)
    /\ Len(get_lltf) = Len(Newest)
    /\ enable_ht40 => Len(get_ht40) = Len(Newest)
    /\ \A i \in DOMAIN Newest :
          /\ get_rssi[i] = << Newest[i].id, 0 >>
          /\ get_timestamps[i] = Data(Newest[i])
          /\ Hex(get_macs[i]) = Newest[i].source_mac
          /\ enable_lltf => get_lltf[i] = Data(Newest[i])

\* the ring slot (0 .. size-1) that holds the record of the oldest cluster kept
OldestSlot ==
    CHOOSE i \in 0 .. size - 1 :
        storage_rssi[i + 1] = << stored[Len(stored) - size + 1].id, 0 >>

\* slot i holds the same record before and after the step
Kept(i) ==
    /\ storage_ht40'[i + 1] = storage_ht40[i + 1]
    /\ storage_lltf'[i + 1] = storage_lltf[i + 1]
    /\ storage_timestamps'[i + 1] = storage_timestamps[i + 1]
    /\ storage_rssi'[i + 1] = storage_rssi[i + 1]
    /\ storage_macs'[i + 1] = storage_macs[i + 1]

\* C9: after M clusters have been stored in a backlog of capacity N,
\* filllevel = min(M, N), head = M mod N and, for M >= 1, latest = (M-1) mod N;
\* when the ring is full, storing a cluster replaces the record of the oldest
\* cluster kept by the record of the new cluster and changes no other slot.
C9_RingCounters ==
    /\ [](/\ filllevel = Min(Len(stored), size)
          /\ head = Len(stored) % size
          /\ Len(stored) >= 1 => latest = (Len(stored) - 1) % size)
    /\ [][ (filllevel = size /\ Len(stored') > Len(stored)) =>
              /\ storage_rssi'[OldestSlot + 1] = << stored'[Len(stored')].id, 0 >>
              /\ \A i \in 0 .. size - 1 : i # OldestSlot => Kept(i) ]_vars

\* C9 witness: a ring of more than one slot has wrapped around and the head is
\* not back at slot 0.
C9_Witness ==
    /\ size > 1
    /\ Len(stored) > size
    /\ head # 0
    /\ filllevel = size

\* C10 as stated: with HT40 storage enabled and at least one cluster stored, the
\* last row of get_ht40() is the HT40 tensor of the most recently stored
\* cluster, whether or not that cluster is made of HT40 packets.
C10_LastRowIsLatest ==
    (enable_ht40 /\ Len(stored) >= 1) =>
        get_ht40[filllevel] = Data(stored[Len(stored)])

\* C10 amended: with HT40 storage enabled, if the most recently stored cluster is
\* made of HT40 packets then the last row of get_ht40() is its HT40 tensor.
C10_LastRowIsLatestHt40 ==
    (enable_ht40 /\ Len(stored) >= 1 /\ stored[Len(stored)].is_ht40) =>
        get_ht40[filllevel] = Data(stored[Len(stored)])

\* C10 witness: HT40 storage is enabled, the ring has wrapped around, and an HT40
\* cluster has been stored right after a cluster that is not HT40.
C10_Witness ==
    /\ enable_ht40
    /\ Len(stored) > size
    /\ stored[Len(stored)].is_ht40
    /\ ~ stored[Len(stored) - 1].is_ht40
    /\ get_ht40[filllevel] = Data(stored[Len(stored)])

\* the source MAC begins with the hexadecimal digits of the filter
StartsWith(mac_str, prefix) ==
    /\ Len(prefix) <= Len(mac_str)
    /\ SubSeq(mac_str, 1, Len(prefix)) = prefix

\* nothing of the ring has changed and no update callback has been invoked
RingUntouched ==
    UNCHANGED << storage_ht40, storage_lltf, storage_timestamps, storage_rssi,
                 storage_macs, head, latest, filllevel, notified >>

\* the step hands cluster c to the backlog while a filter is installed
FilteredDelivery(c) ==
    /\ mac_filter # << >>
    /\ delivered' = delivered + 1
    /\ new_csi_callback(c)

C12_ReadIsBeforeOrAfterInsert ==
    (r_pc = "done" /\ w_pc = "idle") => r_result[1] \in views

\* the slot keeps its record, samples, RSSI and noise floor in the step
SlotKept(slot) ==
    /\ cluster'.serialized_csi_all[slot] = cluster.serialized_csi_all[slot]
    /\ complex_csi_all(cluster', slot) = complex_csi_all(cluster, slot)
    /\ rssi_all(cluster', slot) = rssi_all(cluster, slot)
    /\ noise_floor_all(cluster', slot) = noise_floor_all(cluster, slot)

\* C13: once a slot of a cluster is filled, a later add_csi for the same slot of
\* the same cluster does not change the samples, RSSI, noise floor or serialized
\* record stored in the slot.
C13_FilledSlotIsKept ==
    [][ \A slot \in cluster.csi_completion_state : SlotKept(slot) ]_vars

\* C14: over any sequence of add_csi calls on a cluster the completion mask
\* never loses a bit, csi_completion_state_all never goes from true back to
\* false, and after every add csi_completion_state_all is true iff every bit
\* of the mask is set.
C14_CompletionMonotone ==
    /\ [](cluster.csi_completion_state_all
             <=> cluster.csi_completion_state = Slots(cluster.boardcount))
    /\ [][ /\ cluster.csi_completion_state \subseteq cluster'.csi_completion_state
           /\ cluster.csi_completion_state_all => cluster'.csi_completion_state_all ]_vars

\* C14 witness: every sensor has reported, one of them twice, and the cluster is
\* complete.
C14_Witness ==
    /\ adds > ANTENNAS_PER_BOARD
    /\ cluster.csi_completion_state_all
    /\ cluster.csi_completion_state = Slots(1)


\* C15: once stop() has been called after start(), the reader thread ends and
\* stop() returns with the thread joined, whatever the controller sends.
C15_StopJoinsReader ==
    (s_pc # "idle") ~> (s_pc = "returned" /\ t_pc \in { "exit", "dead" })


\* the reader itself clears the flag in this step
Disconnects == t_check /\ csistream_connected /\ ~csistream_connected'

\* C16: every receive timeout adds 200 ms to the accumulated silence and every
\* message resets it to zero; the reader disconnects exactly when the
\* accumulated silence exceeds 5 s, and a reader that has exited stays so.
C16_DisconnectsBeyondFiveSeconds ==
    [][ /\ t_timeout => timeout_total'.ms = timeout_total.ms + timeout_once
        /\ (\E m \in Messages : t_recv(m)) => timeout_total'.ms = 0
        /\ Disconnects <=> (t_check /\ csistream_connected
                                    /\ timeout_total.ms > csistream_timeout)
        /\ t_pc = "exit" => t_pc' = "exit" ]_vars


\* C17: a message of a length that is not a whole number of packets, and a
\* packet without the CSI magic, lead to no append, and the reader thread
\* goes on receiving.
C17_UnparsedDroppedLoopContinues ==
    /\ t_pc # "dead"
    /\ \A k \in DOMAIN got : \A i \in DOMAIN got[k] :
           got[k][i].serialized_csi = ESPARGOS_SPI_TYPE_HEADER_CSI
    /\ (last_message # << >> /\ ~last_message[1].whole) =>
           \A k \in DOMAIN got : got[k] = << >>


\* the records of message m that carry the CSI magic
CsiRecords(m) ==
    SelectSeq(m.packets, LAMBDA p : p.type_header = ESPARGOS_SPI_TYPE_HEADER_CSI)

\* what the consumer registered with args is owed for message m
Owed(m, args) ==
    [i \in 1 .. Len(CsiRecords(m)) |->
        [esp_num |-> CsiRecords(m)[i].esp_num,
         serialized_csi |-> CsiRecords(m)[i].type_header,
         args |-> args]]

\* the reader is between two messages
Handled == t_pc \in { "check", "while", "recv", "exit" } /\ last_message # << >>

\* C18: once a message is handled, every consumer registered when it arrived
\* has received exactly one item (esp_num, record, args) per CSI record, in
\* order, the pool's args being the position of the board; each append is made
\* while the reader holds the consumer's condition variable and is followed by
\* one notification of it.
C18_OneItemPerRecordAndConsumer ==
    /\ [](Handled =>
            \A k \in 1 .. last_message[2] : got[k] = Owed(last_message[1], consumers[k]))
    /\ [](\A k \in DOMAIN got :
            notifications[k] = Len(got[k]) - (IF t_pc = "notify" /\ m_j = k THEN 1 ELSE 0))
    /\ [][ /\ t_append => cv_owner[m_j] = "reader"
           /\ (t_notify /\ t_pc = "notify") => cv_owner[m_j] = "reader" ]_vars

\* a message with a CSI record and a record without the magic has been handled
\* for the pool and for the application's consumer
C18_Witness ==
    /\ Handled
    /\ last_message[2] = MaxConsumers
    /\ Len(last_message[1].packets) > 1
    /\ got[MaxConsumers] # << >>
    /\ consumers[1] = 1


\* after the collection phase no cluster of the calibration cache is complete
\* for some board (per_board), or none is complete for all boards
NothingComplete(per_board) ==
    IF per_board
    THEN \E b \in Boards : Len(CompleteFor(cluster_cache_calib, b)) = 0
    ELSE Len(CompleteAll(cluster_cache_calib)) = 0

\* C19: calibrate(per_board) raises "calibration failed" iff, after the
\* collection phase, some board has no calibration cluster with all of its
\* slots filled (per_board = true), or no calibration cluster has every slot of
\* every board filled (per_board = false).
C19_FailsIffNothingComplete ==
    [][ \A per_board \in BOOLEAN :
            calibrate_end(per_board) => (raised' = "failed" <=> NothingComplete(per_board))
      ]_vars

\* C20: a calibrate() call that fails because no complete calibration cluster
\* was collected leaves the stored calibration as it was.
C20_FailureKeepsCalibration ==
    [][ (\E per_board \in BOOLEAN : calibrate_end(per_board) /\ NothingComplete(per_board))
            => stored_calibration' = stored_calibration ]_vars

\* a calibration is stored and the calibrate() call that has just ended raised
\* "calibration failed"
C20_Witness ==
    /\ raised = "failed"
    /\ ~ calibrating
    /\ stored_calibration # << >>


\* every board has a complete HT40 cluster in the calibration cache and all
\* clusters of the cache were received on the same primary and secondary channel
ReferenceOnEveryBoard ==
    /\ \A b \in Boards :
           \E k \in DOMAIN CompleteFor(cluster_cache_calib, b) :
               is_ht40(CompleteFor(cluster_cache_calib, b)[k])
    /\ \A j, k \in DOMAIN cluster_cache_calib :
           /\ get_primary_channel(cluster_cache_calib[j])
                  = get_primary_channel(cluster_cache_calib[k])
           /\ get_secondary_channel(cluster_cache_calib[j])
                  = get_secondary_channel(cluster_cache_calib[k])

Returned == Len(result) = 3 /\ result[2] = "none"

\* the stored HT-LTF samples of antenna s, by field of csi_buf_t
Stored(s, name) == complex_csi_part(result[1][s], name)

\* the samples rotated by exp(-j*pi/2) when rotate holds
Rotated(samples, rotate) ==
    [k \in DOMAIN samples |-> IF rotate THEN Times(samples[k], MinusJ) ELSE samples[k]]

\* C22: deserialize_csi_ht40 on an HT40 cluster returns a tensor in which the
\* half of the secondary channel is the stored HT-LTF samples times -j and
\* the other half is the stored samples unchanged; for
\* secondary_channel_relative = +1 the rotated half is the one filled from
\* htltf_lower, for -1 the one filled from htltf_higher.
C22_SecondaryHalfRotated ==
    Returned =>
        LET loc == get_secondary_channel_relative(Decoded)
            width == Len(result[3][CHOOSE s \in Antennas : TRUE])
        IN  \A s \in Antennas :
                /\ Slice(result[3][s], 0, 57) = Rotated(Stored(s, "htltf_lower"), loc = 1)
                /\ Slice(result[3][s], width - 57, width)
                       = Rotated(Stored(s, "htltf_higher"), loc = 0 - 1)

\* C23 as stated: per antenna the tensor is 120 wide, starts with the
\* htltf_lower samples, ends with the htltf_higher samples and has exactly 3
\* zero gap subcarriers between them; the backlog's HT40 rows are as wide.
C23_Width120 ==
    Returned =>
        /\ \A s \in Antennas :
            /\ Len(result[3][s]) = 120
            /\ Slice(result[3][s], 0, 57) = Stored(s, "htltf_lower")
            /\ Slice(result[3][s], 120 - 57, 120) = Stored(s, "htltf_higher")
            /\ 120 - 57 - 57 = 3
            /\ \A k \in 57 + 1 .. 120 - 57 : result[3][s][k] = << 0, 0 >>
        /\ storage_ht40_width = 120

\* C23 amended: per antenna the tensor is 117 wide: the 57 htltf_lower
\* samples, then exactly 3 zero gap subcarriers, then the 57 htltf_higher
\* samples; the backlog's HT40 rows are as wide.
C23_Width117 ==
    Returned =>
        /\ \A s \in Antennas :
            /\ Len(result[3][s]) = 117
            /\ Slice(result[3][s], 0, 57) = Stored(s, "htltf_lower")
            /\ Slice(result[3][s], 117 - 57, 117) = Stored(s, "htltf_higher")
            /\ 117 - 57 - 57 = 3
            /\ \A k \in 57 + 1 .. 117 - 57 : result[3][s][k] = << 0, 0 >>
        /\ storage_ht40_width = 117

\* a tensor was returned whose two halves differ and are not zero
C23_Witness ==
    /\ Returned
    /\ \E s \in Antennas :
        /\ Stored(s, "htltf_lower") # Stored(s, "htltf_higher")
        /\ \A k \in 1 .. 57 : Stored(s, "htltf_lower")[k] # << 0, 0 >>
        /\ \A k \in 1 .. 57 : Stored(s, "htltf_higher")[k] # << 0, 0 >>

\* C24: for every int8 buffer the k-th decoded complex sample is
\* buf[2k+1] + j*buf[2k]: real part the second byte, imaginary part the first
\* byte of the pair, with no sign change.
C24_DecodeImRe ==
    Len(result) >= 1 =>
        \A s \in Antennas :
            LET buf == arg[1][s].buf
            IN  /\ Len(result[1][s]) = Len(buf) \div 2
                /\ \A k \in 0 .. (Len(buf) \div 2) - 1 :
                       result[1][s][k + 1] = << buf[2 * k + 1 + 1], buf[2 * k + 1] >>

\* C25: after CSIBacklog.start(), a call of CSIBacklog.stop() makes the
\* producer thread leave its loop after at most one further call of
\* Pool.run(), and stop() returns, and only after that thread has terminated.
C25_StopEndsProducer ==
    /\ [](further_runs <= 1)
    /\ [][(th_pc["application"] = "join" /\ th_pc'["application"] = "idle")
              => th_pc["producer"] = "done" /\ th_pc'["producer"] = "done"]_vars
    /\ (th_pc["application"] = "join" ~> (stop_returned /\ th_pc["application"] = "idle"))

\* stop() has returned after the producer began one more Pool.run()
C25_Witness == stop_returned /\ further_runs = 1 /\ th_pc["producer"] = "done"

\* C26: in every reachable state of the backlog nonempty() is true iff at
\* least one cluster has been stored (filllevel >= 1), and
\* get_latest_timestamp() returns None exactly when no cluster has been stored.
C26_NonemptyIffStored ==
    size > 0 =>
        /\ nonempty <=> filllevel >= 1
        /\ get_latest_timestamp = << >> <=> filllevel = 0

\* callback i is eligible for cluster c: its predicate returns true or, without
\* a predicate, the cluster is complete
Eligible(i, c) ==
    IF callbacks[i].cb_predicate # "none"
    THEN cb_predicate(callbacks[i].cb_predicate, c.csi_completion_state, c.age)
    ELSE c.csi_completion_state_all

\* C27: in each callback pass over a cluster, every registered callback that
\* has not yet fired for that cluster and is eligible for it is invoked in
\* that pass, whether or not the callbacks registered before it are eligible.
C27_EveryEligibleCallbackInvoked ==
    [][(pc = "handle" /\ packets # << >> /\ ~ Head(packets).is_calib /\ packets' = Tail(packets))
          => \A k \in DOMAIN cluster_cache_ota' : \A i \in DOMAIN callbacks :
                LET c == cluster_cache_ota'[k]
                    fired_before ==
                        \E j \in DOMAIN cluster_cache_ota :
                            cluster_cache_ota[j].id = c.id /\ cluster_cache_ota[j].called[i] > 0
                IN  (~ fired_before /\ Eligible(i, c))
                        => \E r \in DOMAIN last_calls' :
                              last_calls'[r].cb = i /\ last_calls'[r].id = c.id]_vars

\* C28: at any time at most one thread executes the drain-and-process step of
\* the pool: whatever CSIBacklog.start(), Pool.calibrate() and Pool.run()
\* calls the application makes, the cluster caches are never read or mutated
\* by two threads concurrently (no two threads are inside the loop of
\* _handle_packets with packets left to process).
C28_OneThreadInHandlePackets ==
    ~ \A t \in Threads : th_pc[t] = "handle" /\ th_packets[t] # << >>

\* the ring of the backlog does not change
RingUnchanged ==
    UNCHANGED << storage_ht40, storage_lltf, storage_timestamps, storage_rssi, storage_macs,
                 head, latest, filllevel >>

\* C30: the ring of the backlog is mutated only by the producer thread of the
\* backlog: a Pool.run() or Pool.calibrate() executed by another thread before
\* CSIBacklog.start() or after CSIBacklog.stop() has returned never stores a
\* cluster, so after stop() has returned storage, head, filllevel and latest
\* never change again.
C30_RingMutatedByProducerOnly ==
    /\ [][(~ started \/ stop_returned) => RingUnchanged]_vars
    /\ [](storer \in { "none", "producer" })

StaleCached == \E k \in DOMAIN cluster_cache_ota : Stale(cluster_cache_ota[k])

\* C31: every over-the-air cluster whose age exceeds ota_cache_timeout is
\* removed from the over-the-air cache by the next Pool.run() call, whether or
\* not a callback has fired for it and whether or not that call processes a
\* packet (with run() called again and again, a stale cluster does not stay
\* in the cache), and the pass that evicts a cluster for which a callback was
\* never invoked does not deliver the cluster to that callback.
C31_StaleRemovedByNextRun ==
    /\ [](StaleCached => <>(~ StaleCached))
    /\ [](\A e \in last_evicted : \A i \in Registered :
             e.called[i] = 0 => ~ \E c \in Calls : c.cb = i /\ c.id = e.id)

\* the records of the cluster whose timestamps were asked for
TimedSlots == DOMAIN arg[1]

\* C33: in the per-antenna timestamp the 11-bit field rxstart_time_cyc_dec
\* contributes v * (1/640 MHz), where v is the field when it is below 1024 and
\* the field minus 2048 when it is 1024 or more, so that v lies in
\* -1024 .. 1023.
C33_CycDecSigned ==
    result # << >> =>
        \A s \in TimedSlots :
            LET r == arg[1][s]
                v == IF r.rxstart_time_cyc_dec >= 1024
                     THEN r.rxstart_time_cyc_dec - 2048
                     ELSE r.rxstart_time_cyc_dec
                rest == result[1][s][1] - v * CYC_DEC_PERIOD_NS
            IN  /\ v \in (0 - 1024) .. 1023
                /\ rest = nanosecond_timestamp([r EXCEPT !.rxstart_time_cyc_dec = 0])

C35_DisabledRowsAreNaN ==
    [][Len(stored') > Len(stored)
          => LET c == stored'[Len(stored')]
                 slot == head + 1
             IN  /\ ~ enable_lltf =>
                        /\ storage_lltf'[slot] = NaN
                        /\ enable_ht40 =>
                              storage_ht40'[slot] =
                                  IF c.is_ht40 THEN Data(c) ELSE storage_ht40[slot]
                 /\ ~ enable_ht40 => storage_ht40'[slot] = NaN]_vars

\* C37: every fragment stored in the slot (board, row, col) of a cluster was
\* reported by the sensor esp_num = 4 * (1 - row) + (3 - col) of that board;
\* esp_num -> (1 - esp_num div 4, 3 - esp_num mod 4) is a bijection from 0 .. 7
\* onto the 2 x 4 slots; and a stream packet whose esp_num is not in 0 .. 7
\* never fills or overwrites a slot.
C37_SlotFilledByItsSensor ==
    /\ \A s \in Slots(1) :
          Cardinality({ e \in 0 .. 7 : << 0, Row(e), Column(e) >> = s }) = 1
    /\ \A s \in DOMAIN cluster.serialized_csi_all :
          LET esp_num == cluster.serialized_csi_all[s].buf
          IN  /\ esp_num \in 0 .. 7
              /\ esp_num = 4 * (1 - s[2]) + (3 - s[3])


\* C38: once a cluster with key k has been delivered to a callback and deleted
\* from the cache, no later fragment with key k makes the pool invoke that
\* callback again with a cluster of key k, whatever the predicate of the callback
C38_NoDeliveryAfterEviction ==
    [][ add_count' # add_count =>
            \A n \in DOMAIN last_calls' :
                << last_calls'[n].cb, last_calls'[n].id >> \notin gone ]_vars


\* C36: a call of new_csi_callback that stores its cluster invokes every
\* registered update callback exactly once, in registration order, and each of
\* them finds the new record as the last row of the accessors and as the latest
\* timestamp (the row is written and head, filllevel and latest are advanced);
\* a call that stores nothing, as the call for a cluster the MAC filter discards,
\* invokes no update callback
C36_UpdateCallbacksAfterStore ==
    [][ delivered' > delivered =>
          IF Len(stored') > Len(stored)
          THEN LET c == stored'[Len(stored')]
               IN  /\ Len(update_calls') = update_callbacks
                   /\ \A i \in 1 .. update_callbacks :
                         LET call == update_calls'[i]
                         IN  /\ call.cb = i
                             /\ call.seen.timestamps[1] = c.id
                             /\ call.seen.rssi[1] = c.id
                             /\ call.seen.macs = ParseMac(c.source_mac)
                             /\ call.seen.latest # << >>
                             /\ call.seen.latest[1][1] = c.id
          ELSE update_calls' = << >> ]_vars

\* C36 witness: with a filter installed and two update callbacks registered, the
\* ring has wrapped, a cluster has been discarded, and the last call stored its
\* cluster and announced it to both callbacks
C36_Witness ==
    /\ mac_filter # << >>
    /\ update_callbacks = 2
    /\ size > 1
    /\ Len(stored) > size
    /\ delivered > Len(stored)
    /\ Len(update_calls) = 2
    /\ update_calls[1].cb = 1
    /\ update_calls[2].cb = 2
    /\ update_calls[2].seen.rssi[1] = stored[Len(stored)].id


\* the number of packets of board b in a list of queue items
PacketsOf(list, b) == Cardinality({ n \in DOMAIN list : list[n].board_num = b })

\* C39: no packet is lost, also when a registered callback raises while
\* Pool.run() processes a drained batch: every packet a board has put into the
\* queue has been added to its cluster, or waits in the queue, or waits in the
\* batch of a Pool.run() call that is still going on
C39_NoPacketLost ==
    \A b \in Boards :
        sent[b] = add_count[b] + PacketsOf(input_list, b)
                    + PacketsOf(th_packets["application"], b)


\* the statements of a Pool.calibrate call on n boards, in the order of the claim
Order(n) ==
    << Step("clear", n) >> \o [b \in 1 .. n |-> Step("enable", b - 1)]
        \o [b \in 1 .. n |-> Step("disable", b - 1)] \o << Step("evaluate", n) >>

\* the boards the current or the last Pool.calibrate call has enabled
EnabledByCall == { b \in Boards : \E n \in DOMAIN steps : steps[n] = Step("enable", b) }

\* a Pool.calibrate call has terminated, by a return or by an exception
Terminated == ~ calibrating /\ steps # << >>

\* C32: a calibrate() call clears the calibration cache, enables calibration
\* mode on every board, collects, disables calibration mode on every board and
\* evaluates, in this order; and when the call has terminated, by a return or by
\* an exception of the evaluation, of a board control call or of a callback
\* during the collection, calibration mode is off on every board the call had
\* enabled it on
C32_OrderAndModeRestored ==
    /\ Len(steps) <= Len(Order(boardcount))
    /\ SubSeq(Order(boardcount), 1, Len(steps)) = steps
    /\ th_pc["application"] # "idle" =>
          /\ calibrating
          /\ steps = SubSeq(Order(boardcount), 1, 1 + boardcount)
    /\ Terminated => \A b \in EnabledByCall : ~ calib_mode[b]

\* the order of the statements alone
C32_Order ==
    /\ Len(steps) <= Len(Order(boardcount))
    /\ SubSeq(Order(boardcount), 1, Len(steps)) = steps
    /\ th_pc["application"] # "idle" =>
          /\ calibrating
          /\ steps = SubSeq(Order(boardcount), 1, 1 + boardcount)

\* the mode after a call that returned or whose evaluation raised
C32_ModeRestoredAfterEvaluation ==
    (Terminated /\ raised \notin { "control", "callback" }) =>
        /\ steps = Order(boardcount)
        /\ \A b \in Boards : ~ calib_mode[b]

\* a call has returned with a calibration stored
C32_Returned ==
    Terminated /\ raised = "none" /\ stored_calibration # << >> /\ EnabledByCall = Boards

\* a callback has raised during the collection
C32_CallbackRaised == Terminated /\ raised = "callback"

============================================================================
